---- MODULE Spec2Model ----
(***************************************************************************)
(* Model of the inline image generation extension (src/index.js).          *)
(*                                                                         *)
(* One chat message is followed.  message.mes is a sequence of tag         *)
(* segments (the prose between tags never takes part in any rewrite), the  *)
(* rendered view (.mes_text) is a sequence of nodes.  Each call of         *)
(* processMessageTags / regenerateMessageImages is a run; every await of   *)
(* the code (parse, provider call, backoff, artifact store, saveChat) is   *)
(* a point where the run waits and another step may be taken.              *)
(*                                                                         *)
(* Strings are kept as strings; an error message is the sequence of the    *)
(* words it is made of, so that String.includes is a search and not an     *)
(* equality.  Instruction payloads are JSON objects with string fields     *)
(* (spec section 6); "BAD" stands for a payload JSON.parse rejects.        *)
(***************************************************************************)
EXTENDS Integers, Sequences, FiniteSets, TLC

VARIABLES mes, view, processingMessages, settings, dom, runs, outcome, rt, px, rs,
          rq, ui

vars ==
    <<mes, view, processingMessages, settings, dom, runs, outcome, rt, px, rs,
      rq, ui>>

orchVars ==
    <<mes, view, processingMessages, settings, dom, runs, outcome, px, rs, rq, ui>>

(***************************************************************************)
(* Bounds                                                                  *)
(***************************************************************************)
MaxRuns == 2
MaxJobs == 4
MaxRetries == 3
MaxDelay == 2
MaxPieces == 2
MaxNodes == 2

(***************************************************************************)
(* Program constants                                                       *)
(***************************************************************************)
DefaultMaxRetries == 0
DefaultRetryDelay == 1000
ErrorCut == 50

MessageId == "mes0"
ERROR_IMAGE_PATH == "/scripts/extensions/third-party/sillyimages/error.svg"
Marker == "[IMG:GEN]"
NoSrc == "<no src attribute>"
HalluPath == "/images/missing.png"
PathNames ==
    << <<"/user/images/iig_1a.png", "/user/images/iig_1b.png">>,
       <<"/user/images/iig_2a.png", "/user/images/iig_2b.png">>,
       <<"/user/images/iig_3a.png", "/user/images/iig_3b.png">>,
       <<"/user/images/iig_4a.png", "/user/images/iig_4b.png">> >>

StoredPaths == {PathNames[r][j] : r \in 1..Len(PathNames), j \in 1..2}

NoJob == <<0, 0>>
NoTag == <<"none", 0>>

(***************************************************************************)
(* Small helpers                                                           *)
(***************************************************************************)
Includes(msg, word) == \E i \in 1..Len(msg) : msg[i] = word

Substring(msg, from, to) ==
    SubSeq(msg, from + 1, IF to < Len(msg) THEN to ELSE Len(msg))

Min(S) == CHOOSE x \in S : \A y \in S : x <= y

RECURSIVE SortedSeq(_)
SortedSeq(S) ==
    IF S = {} THEN <<>> ELSE <<Min(S)>> \o SortedSeq(S \ {Min(S)})

RECURSIVE Pow2(_)
Pow2(n) == IF n = 0 THEN 1 ELSE 2 * Pow2(n - 1)

(***************************************************************************)
(* message.mes: tag segments                                               *)
(*   attr   <img data-iig-instruction='{"prompt":p}' src="...">           *)
(*   legacy [IMG:GEN:{"prompt":p}]                                         *)
(*   done   [IMG:(check mark):path]        error  [IMG:ERROR:message]                 *)
(***************************************************************************)
Seg(g, p, src) == [g |-> g, p |-> p, src |-> src]

AttrTag(p, src) == Seg("attr", p, <<src>>)
LegacyTag(p) == Seg("legacy", p, <<>>)

\* srcMatch ? srcMatch[2] : ''
SrcValue(seg) ==
    IF seg.g # "attr" \/ seg.src = <<NoSrc>> THEN "" ELSE seg.src[1]

\* tag.fullMatch.replace(/src\s*=\s*(['"])[^'"]*\1/i, `src="${value}"`):
\* only a quoted src attribute is rewritten, a tag without one is returned
\* as it is
SrcRewrite(fullMatch, value) ==
    IF fullMatch.g = "attr" /\ fullMatch.src # <<NoSrc>>
    THEN [fullMatch EXCEPT !.src = <<value>>]
    ELSE fullMatch

\* String.prototype.replace(string, string): the first occurrence only
ReplaceFirst(text, old, new) ==
    IF \E i \in 1..Len(text) : text[i] = old
    THEN LET i == Min({k \in 1..Len(text) : text[k] = old})
         IN  [text EXCEPT ![i] = new]
    ELSE text

CompletionMarker(imagePath) == Seg("done", "", <<imagePath>>)
ErrorMarker(message) == Seg("error", "", Substring(message, 0, ErrorCut))

(***************************************************************************)
(* parseImageTags                                                          *)
(***************************************************************************)
HasMarker(srcValue) == srcValue = Marker
HasErrorImage(srcValue) == srcValue = ERROR_IMAGE_PATH
HasPath(srcValue) ==
    srcValue \in StoredPaths \cup {HalluPath, ERROR_IMAGE_PATH}

\* the paths of a text for which parseImageTags asks checkFileExists
ProbedPaths(text, checkExistence, forceAll) ==
    { SrcValue(text[i]) : i \in
        { k \in 1..Len(text) :
            /\ text[k].g = "attr"
            /\ ~forceAll /\ checkExistence
            /\ ~HasErrorImage(SrcValue(text[k]))
            /\ ~HasMarker(SrcValue(text[k]))
            /\ SrcValue(text[k]) # ""
            /\ HasPath(SrcValue(text[k])) } }

NeedsGeneration(seg, checkExistence, forceAll, exists) ==
    LET srcValue == SrcValue(seg) IN
    IF HasErrorImage(srcValue) /\ ~forceAll THEN FALSE
    ELSE IF forceAll THEN TRUE
    ELSE IF HasMarker(srcValue) \/ srcValue = "" THEN TRUE
    ELSE IF HasPath(srcValue) /\ checkExistence THEN ~exists[srcValue]
    ELSE FALSE

Tag(text, i) ==
    [fullMatch |-> text[i], index |-> i, prompt |-> text[i].p,
     isNewFormat |-> text[i].g = "attr"]

ParseImageTags(text, checkExistence, forceAll, exists) ==
    LET newIdx == { i \in 1..Len(text) :
                      /\ text[i].g = "attr"
                      /\ NeedsGeneration(text[i], checkExistence, forceAll, exists)
                      /\ text[i].p # "BAD" }
        legacyIdx == { i \in 1..Len(text) :
                      text[i].g = "legacy" /\ text[i].p # "BAD" }
        order == SortedSeq(newIdx) \o SortedSeq(legacyIdx)
    IN  [k \in 1..Len(order) |-> Tag(text, order[k])]

(***************************************************************************)
(* The rendered view: the child nodes of .mes_text                         *)
(*   img      an <img>; instr is its data-iig-instruction payload ("" when *)
(*            it has none), src its src attribute                          *)
(*   text     a tag that is shown as text (legacy tag, completion or error *)
(*            marker); seg is the segment                                  *)
(*   loading  a loading placeholder; own is the job that holds a reference *)
(*            to the element, tid its data-tag-id                          *)
(*   span     <span data-iig-placeholder=tid>                              *)
(***************************************************************************)
NoSeg == Seg("", "", <<>>)

ImgNode(instr, src) ==
    [k |-> "img", instr |-> instr, src |-> src, seg |-> NoSeg,
     own |-> NoJob, tid |-> NoTag]
TextNode(seg) ==
    [k |-> "text", instr |-> "", src |-> "", seg |-> seg,
     own |-> NoJob, tid |-> NoTag]
SpanNode(tid) ==
    [k |-> "span", instr |-> "", src |-> "", seg |-> NoSeg,
     own |-> NoJob, tid |-> tid]

\* createLoadingPlaceholder, held by job own
LoadingNode(own, tid) ==
    [k |-> "loading", instr |-> "", src |-> "", seg |-> NoSeg,
     own |-> own, tid |-> tid]

\* the <img class="iig-generated-image"> a finished job puts in the view
GeneratedImage(imagePath) == ImgNode("", imagePath)

\* createErrorPlaceholder: error.svg, keeping data-iig-instruction when the
\* tag text has one
CreateErrorPlaceholder(tag) ==
    ImgNode(IF tag.fullMatch.g = "attr" THEN tag.prompt ELSE "",
            ERROR_IMAGE_PATH)

\* context.messageFormatting(message.mes, ...) assigned to innerHTML
Render(text) ==
    [i \in 1..Len(text) |->
        IF text[i].g = "attr"
        THEN ImgNode(text[i].p, SrcValue(text[i]))
        ELSE TextNode(text[i])]

\* mesTextEl.innerHTML = mesTextEl.innerHTML...: every node is created anew,
\* so no job holds a reference to a node of the new tree
Reparsed(v) == [i \in 1..Len(v) |-> [v[i] EXCEPT !.own = NoJob]]

\* the first element a loop over the nodes stops at, 0 when it stops at none
FirstIndex(found) == IF found = {} THEN 0 ELSE Min(found)

\* strategies 1-3 of processTag: the payload of the node holds the first 30
\* characters of the prompt (an empty prompt is held by every payload)
PromptMatch(node, tag) ==
    /\ node.instr # ""
    /\ (tag.prompt = "" \/ node.instr = tag.prompt)

HasInstruction(node) == node.k = "img" /\ node.instr # ""

\* the target element of a job of processMessageTags, 0 when none is found
ResolveNew(v, tag) ==
    LET byPrompt == FirstIndex({i \in 1..Len(v) :
                        HasInstruction(v[i]) /\ PromptMatch(v[i], tag)})
        bySrc == FirstIndex({i \in 1..Len(v) :
                        /\ HasInstruction(v[i])
                        /\ v[i].src \in {Marker, "[IMG:ERROR]", "", "#"}})
        broad == FirstIndex({i \in 1..Len(v) :
                        v[i].k = "img" /\ v[i].src \in {Marker, "[IMG:ERROR]"}})
    IN  IF byPrompt # 0 THEN byPrompt
        ELSE IF bySrc # 0 THEN bySrc
        ELSE broad

\* the legacy branch of processTag: the tag text becomes a span everywhere,
\* the tree is parsed anew
LegacyReplaced(v, tag, tid) ==
    Reparsed([i \in 1..Len(v) |->
        IF v[i].k = "text" /\ v[i].seg = tag.fullMatch
        THEN SpanNode(tid) ELSE v[i]])

ResolveLegacy(v, tag, tid) ==
    IF LegacyReplaced(v, tag, tid) # Reparsed(v)
    THEN FirstIndex({i \in 1..Len(v) :
                LegacyReplaced(v, tag, tid)[i].k = "span"
                /\ LegacyReplaced(v, tag, tid)[i].tid = tid})
    ELSE 0

\* the synchronous part of processTag without the fallback: a target that
\* is not found gets no placeholder
PlaceLoadingNoAppend(v, tag, own, tid) ==
    LET v1 == IF tag.isNewFormat THEN v ELSE LegacyReplaced(v, tag, tid)
        target == IF tag.isNewFormat THEN ResolveNew(v, tag)
                  ELSE ResolveLegacy(v, tag, tid)
    IN  IF target # 0
        THEN [v1 EXCEPT ![target] = LoadingNode(own, tid)]
        ELSE v1

\* the view after the synchronous part of processTag for job own
PlaceLoading(v, tag, own, tid) ==
    LET v1 == IF tag.isNewFormat THEN v ELSE LegacyReplaced(v, tag, tid)
        target == IF tag.isNewFormat THEN ResolveNew(v, tag)
                  ELSE ResolveLegacy(v, tag, tid)
    IN  IF target # 0
        THEN [v1 EXCEPT ![target] = LoadingNode(own, tid)]
        ELSE Append(v1, LoadingNode(own, tid))

\* element.replaceWith(node) for the element job own holds: nothing happens
\* in the view when the element is no longer part of it
ReplaceOwned(v, own, node) ==
    [i \in 1..Len(v) |-> IF v[i].own = own THEN node ELSE v[i]]

(***************************************************************************)
(* Provider adapter and retry loop                                         *)
(***************************************************************************)
HttpResponse(status, body) == [kind |-> "http", status |-> status, body |-> body]
FetchRejected(message) == [kind |-> "reject", status |-> "", body |-> message]

\* what the adapter returns for an image: the data URL it builds from
\* b64_json, or the url of the response as it is
DataUrl == "data:image/png;base64,AAAA"
ImageUrl == "https://images.example/1.png"

Responses ==
    { HttpResponse("200", <<"b64_json">>),
      HttpResponse("200", <<"url">>),
      HttpResponse("200", <<>>),
      HttpResponse("400", <<"bad", "request">>),
      HttpResponse("400", <<"upstream", "timeout">>),
      HttpResponse("401", <<"request", "503", "denied">>),
      HttpResponse("429", <<"slow", "down">>),
      HttpResponse("500", <<"internal", "error">>),
      HttpResponse("502", <<>>),
      HttpResponse("503", <<"unavailable">>),
      HttpResponse("504", <<>>),
      FetchRejected(<<"Failed", "to", "fetch">>) }

OrchResponses ==
    { HttpResponse("200", <<"b64_json">>),
      HttpResponse("503", <<"unavailable">>) }

\* generateImageOpenAI / generateImageGemini after fetch: the data URL, or
\* the message of the Error that is thrown
ProviderResult(resp) ==
    IF resp.kind = "reject"
    THEN [ok |-> FALSE, message |-> resp.body, data |-> ""]
    ELSE IF resp.status # "200"
    THEN [ok |-> FALSE,
          message |-> <<"API Error (", resp.status, "):">> \o resp.body,
          data |-> ""]
    ELSE IF resp.body = <<>>
    THEN [ok |-> FALSE, message |-> <<"No", "image", "data", "in", "response">>,
          data |-> ""]
    ELSE [ok |-> TRUE, message |-> <<>>,
          data |-> IF resp.body = <<"b64_json">> THEN DataUrl ELSE ImageUrl]

\* dataUrl.match(/^data:image\/(\w+);base64,(.+)$/) of saveImageToFile
IsDataUrl(dataUrl) == dataUrl = DataUrl

IsRetryable(message) ==
    \/ Includes(message, "429")
    \/ Includes(message, "503")
    \/ Includes(message, "502")
    \/ Includes(message, "504")
    \/ Includes(message, "timeout")
    \/ Includes(message, "network")

\* a backoff that does not grow
FixedDelay(baseDelay, attempt) == baseDelay

Delay(baseDelay, attempt) == baseDelay * Pow2(attempt)

\* the loop with its ceiling one too high
RetryStepOneMore(attempt, maxRetries, baseDelay, resp) ==
    LET res == ProviderResult(resp) IN
    IF res.ok THEN [act |-> "return", message |-> <<>>, delay |-> 0]
    ELSE IF ~IsRetryable(res.message) \/ attempt = maxRetries + 1
    THEN [act |-> "throw", message |-> res.message, delay |-> 0]
    ELSE [act |-> "wait", message |-> res.message,
          delay |-> Delay(baseDelay, attempt)]

\* one turn of the loop of generateImageWithRetry after the provider call of
\* this attempt has answered
RetryStep(attempt, maxRetries, baseDelay, resp) ==
    LET res == ProviderResult(resp) IN
    IF res.ok THEN [act |-> "return", message |-> <<>>, delay |-> 0]
    ELSE IF ~IsRetryable(res.message) \/ attempt = maxRetries
    THEN [act |-> "throw", message |-> res.message, delay |-> 0]
    ELSE [act |-> "wait", message |-> res.message,
          delay |-> Delay(baseDelay, attempt)]

\* validateSettings without the check of the model
ValidateSettingsNoModel(s) ==
    LET errors == (IF ~s.endpoint THEN <<"endpoint">> ELSE <<>>)
                  \o (IF ~s.apiKey THEN <<"apiKey">> ELSE <<>>)
    IN  IF Len(errors) > 0 THEN <<"settings", "error:">> \o errors ELSE <<>>

\* validateSettings: the message of the Error it throws, <<>> when it passes
ValidateSettings(s) ==
    LET errors == (IF ~s.endpoint THEN <<"endpoint">> ELSE <<>>)
                  \o (IF ~s.apiKey THEN <<"apiKey">> ELSE <<>>)
                  \o (IF ~s.model THEN <<"model">> ELSE <<>>)
    IN  IF Len(errors) > 0 THEN <<"settings", "error:">> \o errors ELSE <<>>

(***************************************************************************)
(* Runs and jobs                                                           *)
(***************************************************************************)
NewJob(tag) ==
    [tag |-> tag, st |-> "Pending", await |-> "none", attempt |-> 0,
     maxRetries |-> 0, baseDelay |-> 0, calls |-> 0, error |-> <<>>,
     path |-> ""]

\* the job has entered the loop of generateImageWithRetry and its first
\* provider call is out
Dispatched(job, s) ==
    [job EXCEPT !.st = "Generating", !.await = "provider",
                !.maxRetries = s.maxRetries, !.baseDelay = s.retryDelay,
                !.calls = 1]

\* a failure that sends the job back to the provider
FailedCallsAgain(job, message) ==
    [job EXCEPT !.st = "Generating", !.await = "provider", !.error = message]

Failed(job, message) ==
    [job EXCEPT !.st = "Error", !.await = "none", !.error = message]

Succeeded(job, imagePath) ==
    [job EXCEPT !.st = "Done", !.await = "none", !.path = imagePath]

IdleRun ==
    [kind |-> "none", pc |-> "idle", why |-> "", text |-> <<>>,
     seen |-> <<>>, during |-> {}, jobs |-> <<>>, saves |-> 0]

Settled(job) == job.st \in {"Done", "Error"}

\* the join taken as a race: the first settled job ends the wait
AnySettled(jobs) == \E j \in 1..Len(jobs) : Settled(jobs[j])

AllSettled(jobs) == \A j \in 1..Len(jobs) : Settled(jobs[j])

AutoTagId(j) == <<"iig", j - 1>>
RegenTagId(j) == <<"iig-regen", j - 1>>

\* message.mes after the try branch / the catch branch of processTag
DoneRewrite(text, tag, imagePath) ==
    IF tag.isNewFormat
    THEN ReplaceFirst(text, tag.fullMatch, SrcRewrite(tag.fullMatch, imagePath))
    ELSE ReplaceFirst(text, tag.fullMatch, CompletionMarker(imagePath))

ErrorRewrite(text, tag, message) ==
    IF tag.isNewFormat
    THEN ReplaceFirst(text, tag.fullMatch, SrcRewrite(tag.fullMatch, ERROR_IMAGE_PATH))
    ELSE ReplaceFirst(text, tag.fullMatch, ErrorMarker(message))

\* the synchronous parts of processTag for the jobs j..Len(tags), in the
\* order of tags.map
RECURSIVE PlaceAll(_, _, _, _)
PlaceAll(v, tags, r, j) ==
    IF j > Len(tags) THEN v
    ELSE PlaceAll(PlaceLoading(v, tags[j], <<r, j>>, AutoTagId(j)), tags, r, j + 1)

\* the catch branches of processTag for the jobs j..Len(tags) when
\* validateSettings throws, in the order of tags.map
RECURSIVE FailAll(_, _, _, _, _)
FailAll(w, tags, r, j, message) ==
    IF j > Len(tags) THEN w
    ELSE FailAll(
           [mes |-> ErrorRewrite(w.mes, tags[j], message),
            view |-> ReplaceOwned(w.view, <<r, j>>, CreateErrorPlaceholder(tags[j])),
            outcome |-> [w.outcome EXCEPT ![tags[j].index] = "Error"]],
           tags, r, j + 1, message)

\* the runs between their call and their join
InFlight == {q \in 1..MaxRuns : runs[q].pc \in {"parse", "jobs"}}

\* the jobs a call has started, or may still start while it parses
RECURSIVE JobsSoFar(_)
JobsSoFar(r) ==
    IF r = 0 THEN 0
    ELSE JobsSoFar(r - 1)
         + (IF runs[r].pc = "parse" THEN Len(runs[r].text) ELSE Len(runs[r].jobs))

\* the calls take the run slots in order, and no call is followed once
\* MaxJobs jobs may exist
NextFree(r) ==
    /\ runs[r].kind = "none"
    /\ \A q \in 1..MaxRuns : q < r => runs[q].kind # "none"
    /\ JobsSoFar(MaxRuns) + Len(mes) <= MaxJobs

\* processMessageTags up to the guard and the call of parseImageTags
ProcessMessageTags(r) ==
    /\ runs[r].kind = "none"
    /\ NextFree(r)
    /\ IF ~settings.enabled
       THEN runs' = [runs EXCEPT ![r] = [@ EXCEPT !.kind = "auto", !.pc = "end", !.why = "disabled"]]
       ELSE IF MessageId \in processingMessages
       THEN runs' = [runs EXCEPT ![r] = [@ EXCEPT !.kind = "auto", !.pc = "end", !.why = "guard"]]
       ELSE runs' = [runs EXCEPT ![r] = [@ EXCEPT !.kind = "auto", !.pc = "parse",
                                                  !.text = mes, !.seen = outcome,
                                                  !.during = InFlight]]
    /\ UNCHANGED <<mes, view, processingMessages, settings, dom, outcome, rt, px, rs,
                 rq, ui>>

\* processMessageTags from the return of parseImageTags to the first await
\* of the jobs (or to the call of saveChat when no job awaits anything)
ProcessAdmit(r) ==
    /\ runs[r].kind = "auto" /\ runs[r].pc = "parse"
    /\ \E exists \in [ProbedPaths(runs[r].text, TRUE, FALSE) -> BOOLEAN] :
         LET tags == ParseImageTags(runs[r].text, TRUE, FALSE, exists)
             placed == PlaceAll(view, tags, r, 1)
             invalid == ValidateSettings(settings)
             failed == FailAll([mes |-> mes, view |-> placed, outcome |-> outcome],
                               tags, r, 1, invalid)
         IN
         IF Len(tags) = 0
         THEN /\ runs' = [runs EXCEPT ![r] = [@ EXCEPT !.pc = "end", !.why = "no tags"]]
              /\ UNCHANGED <<mes, view, processingMessages, outcome>>
         ELSE IF dom # "ok"
         THEN /\ processingMessages' = processingMessages \cup {MessageId}
              /\ runs' = [runs EXCEPT ![r] = [@ EXCEPT !.pc = "end", !.why = "no element"]]
              /\ UNCHANGED <<mes, view, outcome>>
         ELSE IF invalid # <<>>
         THEN /\ mes' = failed.mes
              /\ view' = failed.view
              /\ outcome' = failed.outcome
              /\ processingMessages' = processingMessages \ {MessageId}
              /\ runs' = [runs EXCEPT ![r] = [@ EXCEPT
                     !.pc = "save", !.saves = @ + 1,
                     !.jobs = [j \in 1..Len(tags) |-> Failed(NewJob(tags[j]), invalid)]]]
         ELSE /\ view' = placed
              /\ processingMessages' = processingMessages \cup {MessageId}
              /\ runs' = [runs EXCEPT ![r] = [@ EXCEPT
                     !.pc = "jobs",
                     !.jobs = [j \in 1..Len(tags) |-> Dispatched(NewJob(tags[j]), settings)]]]
              /\ UNCHANGED <<mes, outcome>>
    /\ UNCHANGED <<settings, dom, rt, px, rs,
                 rq, ui>>

\* Promise.all has resolved: the finally block and the call of saveChat
Joined(run) == [run EXCEPT !.pc = "save", !.saves = @ + 1]

\* the loop of regenerateMessageImages from index j to its next await, or
\* to the call of saveChat when the loop ends
RECURSIVE RegenAdvance(_, _, _, _, _)
RegenAdvance(w, jobs, r, j, s) ==
    IF j > Len(jobs)
    THEN [view |-> w.view, outcome |-> w.outcome, jobs |-> jobs, fin |-> TRUE]
    ELSE LET existingImg == FirstIndex({i \in 1..Len(w.view) : HasInstruction(w.view[i])})
             shown == [w.view EXCEPT ![existingImg] = LoadingNode(<<r, j>>, RegenTagId(j))]
         IN  IF existingImg = 0
             THEN RegenAdvance(w, jobs, r, j + 1, s)
             ELSE IF ValidateSettings(s) # <<>>
             THEN RegenAdvance(
                    [view |-> shown,
                     outcome |-> [w.outcome EXCEPT ![jobs[j].tag.index] = "RegenError"]],
                    [jobs EXCEPT ![j] = Failed(@, ValidateSettings(s))], r, j + 1, s)
             ELSE [view |-> shown,
                   outcome |-> [w.outcome EXCEPT ![jobs[j].tag.index] = "none"],
                   jobs |-> [jobs EXCEPT ![j] = Dispatched(@, s)], fin |-> FALSE]

\* regenerateMessageImages up to the call of parseImageTags
RegenerateMessageImages(r) ==
    /\ runs[r].kind = "none"
    /\ NextFree(r)
    /\ runs' = [runs EXCEPT ![r] = [@ EXCEPT !.kind = "regen", !.pc = "parse",
                                             !.text = mes, !.seen = outcome,
                                             !.during = InFlight]]
    /\ UNCHANGED <<mes, view, processingMessages, settings, dom, outcome, rt, px, rs,
                 rq, ui>>

\* regenerateMessageImages from the return of parseImageTags to its next
\* await
RegenAdmit(r) ==
    /\ runs[r].kind = "regen" /\ runs[r].pc = "parse"
    /\ LET tags == ParseImageTags(runs[r].text, FALSE, TRUE, <<>>)
           adv == RegenAdvance([view |-> view, outcome |-> outcome],
                               [j \in 1..Len(tags) |-> NewJob(tags[j])], r, 1, settings)
       IN
       IF Len(tags) = 0
       THEN /\ runs' = [runs EXCEPT ![r] = [@ EXCEPT !.pc = "end", !.why = "no tags"]]
            /\ UNCHANGED <<view, processingMessages, outcome>>
       ELSE IF dom # "ok"
       THEN /\ processingMessages' = processingMessages \ {MessageId}
            /\ runs' = [runs EXCEPT ![r] = [@ EXCEPT !.pc = "end", !.why = "no element"]]
            /\ UNCHANGED <<view, outcome>>
       ELSE /\ view' = adv.view
            /\ outcome' = adv.outcome
            /\ processingMessages' =
                 IF adv.fin THEN processingMessages \ {MessageId}
                 ELSE processingMessages \cup {MessageId}
            /\ runs' = [runs EXCEPT ![r] =
                 IF adv.fin THEN Joined([@ EXCEPT !.jobs = adv.jobs])
                 ELSE [@ EXCEPT !.pc = "jobs", !.jobs = adv.jobs]]
    /\ UNCHANGED <<mes, settings, dom, rt, px, rs,
                 rq, ui>>

\* the job (r, j) ends in Error: the catch branch of processTag, or the
\* catch of the loop of regenerateMessageImages and the loop going on
JobFails(r, j, message) ==
    LET run == runs[r]
        tag == run.jobs[j].tag
        jobs1 == [run.jobs EXCEPT ![j] = Failed(@, message)]
        adv == RegenAdvance(
                 [view |-> view,
                  outcome |-> [outcome EXCEPT ![tag.index] = "RegenError"]],
                 jobs1, r, j + 1, settings)
    IN
    IF run.kind = "auto"
    THEN /\ mes' = ErrorRewrite(mes, tag, message)
         /\ view' = ReplaceOwned(view, <<r, j>>, CreateErrorPlaceholder(tag))
         /\ outcome' = [outcome EXCEPT ![tag.index] = "Error"]
         /\ processingMessages' =
              IF AllSettled(jobs1) THEN processingMessages \ {MessageId}
              ELSE processingMessages
         /\ runs' = [runs EXCEPT ![r] =
              IF AllSettled(jobs1) THEN Joined([@ EXCEPT !.jobs = jobs1])
              ELSE [@ EXCEPT !.jobs = jobs1]]
    ELSE /\ mes' = mes
         /\ view' = adv.view
         /\ outcome' = adv.outcome
         /\ processingMessages' =
              IF adv.fin THEN processingMessages \ {MessageId}
              ELSE processingMessages
         /\ runs' = [runs EXCEPT ![r] =
              IF adv.fin THEN Joined([@ EXCEPT !.jobs = adv.jobs])
              ELSE [@ EXCEPT !.jobs = adv.jobs]]

\* the job (r, j) ends in Done with the stored image at imagePath
JobSucceeds(r, j, imagePath) ==
    LET run == runs[r]
        tag == run.jobs[j].tag
        jobs1 == [run.jobs EXCEPT ![j] = Succeeded(@, imagePath)]
        shown == ReplaceOwned(view, <<r, j>>, GeneratedImage(imagePath))
        adv == RegenAdvance(
                 [view |-> shown,
                  outcome |-> [outcome EXCEPT ![tag.index] = "Done"]],
                 jobs1, r, j + 1, settings)
    IN
    IF run.kind = "auto"
    THEN /\ mes' = DoneRewrite(mes, tag, imagePath)
         /\ view' = shown
         /\ outcome' = [outcome EXCEPT ![tag.index] = "Done"]
         /\ processingMessages' =
              IF AllSettled(jobs1) THEN processingMessages \ {MessageId}
              ELSE processingMessages
         /\ runs' = [runs EXCEPT ![r] =
              IF AllSettled(jobs1) THEN Joined([@ EXCEPT !.jobs = jobs1])
              ELSE [@ EXCEPT !.jobs = jobs1]]
    ELSE /\ mes' = ReplaceFirst(mes, tag.fullMatch, SrcRewrite(tag.fullMatch, imagePath))
         /\ view' = adv.view
         /\ outcome' = adv.outcome
         /\ processingMessages' =
              IF adv.fin THEN processingMessages \ {MessageId}
              ELSE processingMessages
         /\ runs' = [runs EXCEPT ![r] =
              IF adv.fin THEN Joined([@ EXCEPT !.jobs = adv.jobs])
              ELSE [@ EXCEPT !.jobs = adv.jobs]]

\* the provider answers the call of job (r, j) with resp; with an image
\* that is no data URL saveImageToFile throws before its first await, so
\* the job fails in the same turn
ProviderAnswers(r, j, resp) ==
    /\ runs[r].pc = "jobs"
    /\ j \in 1..Len(runs[r].jobs)
    /\ runs[r].jobs[j].await = "provider"
    /\ LET job == runs[r].jobs[j]
           step == RetryStep(job.attempt, job.maxRetries, job.baseDelay, resp)
       IN  CASE step.act = "return" /\ IsDataUrl(ProviderResult(resp).data) ->
                  /\ runs' = [runs EXCEPT ![r].jobs[j] =
                                [@ EXCEPT !.st = "Saving", !.await = "store"]]
                  /\ UNCHANGED <<mes, view, processingMessages, outcome>>
             [] step.act = "return" /\ ~IsDataUrl(ProviderResult(resp).data) ->
                  JobFails(r, j, <<"Invalid", "data", "URL", "format">>)
             [] step.act = "wait" ->
                  /\ runs' = [runs EXCEPT ![r].jobs[j] =
                                [@ EXCEPT !.await = "backoff", !.error = step.message]]
                  /\ UNCHANGED <<mes, view, processingMessages, outcome>>
             [] step.act = "throw" -> JobFails(r, j, step.message)
    /\ UNCHANGED <<settings, dom, rt, px, rs,
                 rq, ui>>

\* the provider answers the call of job (r, j)
ProviderResponse(r, j) == \E resp \in OrchResponses : ProviderAnswers(r, j, resp)

\* the provider answers the call of job (r, j), with any of its answers
ProviderResponseOfAny(r, j) == \E resp \in Responses : ProviderAnswers(r, j, resp)

\* the backoff timer of job (r, j) fires and the next provider call goes out
BackoffElapsed(r, j) ==
    /\ runs[r].pc = "jobs"
    /\ j \in 1..Len(runs[r].jobs)
    /\ runs[r].jobs[j].await = "backoff"
    /\ runs' = [runs EXCEPT ![r].jobs[j] =
                  [@ EXCEPT !.await = "provider", !.attempt = @ + 1, !.calls = @ + 1]]
    /\ UNCHANGED <<mes, view, processingMessages, settings, dom, outcome, rt, px, rs,
                 rq, ui>>

\* result.path of /api/images/upload: a file name of its own for every call
StoredPath(r, j) == PathNames[r][j]

\* saveImageToFile returns the path of the stored image
StoreReturns(r, j) ==
    /\ runs[r].pc = "jobs"
    /\ j \in 1..Len(runs[r].jobs)
    /\ runs[r].jobs[j].await = "store"
    /\ JobSucceeds(r, j, StoredPath(r, j))
    /\ UNCHANGED <<settings, dom, rt, px, rs,
                 rq, ui>>

\* saveImageToFile throws: the upload is refused
StoreFails(r, j) ==
    /\ runs[r].pc = "jobs"
    /\ j \in 1..Len(runs[r].jobs)
    /\ runs[r].jobs[j].await = "store"
    /\ JobFails(r, j, <<"Upload", "failed:", "500">>)
    /\ UNCHANGED <<settings, dom, rt, px, rs,
                 rq, ui>>

\* context.saveChat() returns: processMessageTags rebuilds the view from
\* message.mes, regenerateMessageImages only logs
SaveChatReturns(r) ==
    /\ runs[r].pc = "save"
    /\ runs' = [runs EXCEPT ![r] = [@ EXCEPT !.pc = "end", !.why = "done"]]
    /\ view' = IF runs[r].kind = "auto" THEN Render(mes) ELSE view
    /\ UNCHANGED <<mes, processingMessages, settings, dom, outcome, rt, px, rs,
                 rq, ui>>

(***************************************************************************)
(* One call of generateImageWithRetry followed on its own, with the        *)
(* provider answers and the waits it has seen                              *)
(***************************************************************************)
IdleCall ==
    [pc |-> "idle", maxRetries |-> 0, baseDelay |-> 0, attempt |-> 0,
     calls |-> 0, waits |-> <<>>, resps |-> <<>>, error |-> <<>>]

\* validateSettings, the settings read, the first provider call
GenerateImageWithRetry ==
    /\ rt.pc = "idle"
    /\ rt' = IF ValidateSettings(settings) # <<>>
             THEN [rt EXCEPT !.pc = "thrown", !.error = ValidateSettings(settings)]
             ELSE [rt EXCEPT !.pc = "call", !.maxRetries = settings.maxRetries,
                             !.baseDelay = settings.retryDelay, !.calls = 1]
    /\ UNCHANGED orchVars

\* the provider answers the call of this attempt
GenerateResponse ==
    /\ rt.pc = "call"
    /\ \E resp \in Responses :
         LET step == RetryStep(rt.attempt, rt.maxRetries, rt.baseDelay, resp)
             seen == [rt EXCEPT !.resps = Append(@, resp)]
         IN  rt' = CASE step.act = "return" -> [seen EXCEPT !.pc = "returned"]
                     [] step.act = "throw" ->
                          [seen EXCEPT !.pc = "thrown", !.error = step.message]
                     [] step.act = "wait" ->
                          [seen EXCEPT !.pc = "wait", !.error = step.message,
                                       !.waits = Append(@, step.delay)]
    /\ UNCHANGED orchVars

\* the timer of the wait fires: the next attempt calls the provider
GenerateWake ==
    /\ rt.pc = "wait"
    /\ rt' = [rt EXCEPT !.pc = "call", !.attempt = @ + 1, !.calls = @ + 1]
    /\ UNCHANGED orchVars

(***************************************************************************)
(* parseImageTags and the rewrites of message.mes on the text itself.      *)
(* The text is a sequence of lexemes: a lexeme is a run of characters that *)
(* the scans of the code only ever take or leave whole (a delimiter, an    *)
(* attribute name with its "=", a marker, a path, a word).  Positions in   *)
(* a text count lexemes from 1; the index of a tag is the offset in        *)
(* characters, as in the code.                                             *)
(***************************************************************************)
ImgOpen == "<img "
InstructionAttr == "data-iig-instruction="
SrcAttr == "src="
SQ == "'"
DQ == "\""
BS == "\\"
GT == ">"
\* two dollar signs in a row
DD == "$$"
\* a word of 29 characters
LongWord == "abcdefghijklmnopqrstuvwxyz123"
SP == " "
LegacyMarker == "[IMG:GEN:"
\* the opening of the completion marker, "[IMG:" the check mark and ":"
CompletionOpen == "[IMG:done:"
ErrorOpen == "[IMG:ERROR:"
RelPath == "images/cat.png"

Quotes == {SQ, DQ}

\* the number of characters of a lexeme
Chars(tok) ==
    CASE tok = ImgOpen -> 5
      [] tok = InstructionAttr -> 21
      [] tok = SrcAttr -> 4
      [] tok = DD -> 2
      [] tok = LegacyMarker -> 9
      [] tok = Marker -> 9
      [] tok = CompletionOpen -> 7
      [] tok = ErrorOpen -> 11
      [] tok = "prompt" -> 6
      [] tok = "style" -> 5
      [] tok = "&quot;" -> 6
      [] tok = LongWord -> 29
      [] tok = "&apos;" -> 6
      [] tok = "&amp;" -> 5
      [] tok = HalluPath -> 19
      [] tok = RelPath -> 14
      [] tok = ERROR_IMAGE_PATH -> 53
      [] tok \in StoredPaths -> 23
      [] OTHER -> 1

\* String.length
RECURSIVE LengthTo(_, _)
LengthTo(s, n) == IF n = 0 THEN 0 ELSE Chars(s[n]) + LengthTo(s, n - 1)

Length(s) == LengthTo(s, Len(s))

\* the offset in characters of the lexeme at position pos
Offset(text, pos) == LengthTo(text, pos - 1)

\* the position of the lexeme that starts at the offset index, 0 when no
\* lexeme starts there
RECURSIVE PosFrom(_, _, _, _)
PosFrom(text, k, offset, index) ==
    IF k > Len(text) \/ offset > index THEN 0
    ELSE IF offset = index THEN k
    ELSE PosFrom(text, k + 1, offset + Chars(text[k]), index)

PosOf(text, index) == PosFrom(text, 1, 0, index)

Max(S) == CHOOSE x \in S : \A y \in S : x >= y

\* String.indexOf for one lexeme: the first position from `from` on, 0 when
\* there is none
IndexOf(text, tok, from) ==
    FirstIndex({k \in from..Len(text) : text[k] = tok})

\* String.indexOf for a string of lexemes
IndexOfText(text, pat) ==
    FirstIndex({i \in 1..(Len(text) - Len(pat) + 1) :
                    /\ text[i] = pat[1]
                    /\ SubSeq(text, i, i + Len(pat) - 1) = pat})

\* String.prototype.replace(string, string): the first occurrence only
ReplaceText(text, old, new) ==
    LET i == IndexOfText(text, old) IN
    IF i = 0 THEN text
    ELSE SubSeq(text, 1, i - 1) \o new \o SubSeq(text, i + Len(old), Len(text))

\* srcValue.includes('[IMG:GEN]') || srcValue.includes('[IMG:')
HasMarkerText(srcValue) ==
    \E k \in 1..Len(srcValue) :
        srcValue[k] \in {Marker, LegacyMarker, CompletionOpen, ErrorOpen}

\* srcValue.includes('error.svg')
HasErrorImageText(srcValue) ==
    \E k \in 1..Len(srcValue) : srcValue[k] = ERROR_IMAGE_PATH

\* the lexemes whose first character is "/"
StartsWithSlash(tok) ==
    tok \in StoredPaths \cup {HalluPath, ERROR_IMAGE_PATH, "/"}

\* srcValue && srcValue.startsWith('/') && srcValue.length > 5
HasPathText(srcValue) ==
    /\ srcValue # <<>>
    /\ StartsWithSlash(srcValue[1])
    /\ Length(srcValue) > 5

\* checkFileExists: response.ok of the HEAD request, false when fetch
\* rejects; probe gives the answer of the server for a path
CheckFileExists(probe, path) ==
    path \in DOMAIN probe /\ probe[path] = "ok"

NoMatch == [start |-> 0, open |-> 0, close |-> 0, stop |-> 0]

\* imgTagRegex tried at position i:
\*   <img\s+ [^>]* data-iig-instruction\s*=\s* (['"]) ([\s\S]*?) \1 [^>]* >
\* [^>]* is greedy (the last attribute name that lets the rest match), the
\* instruction is lazy (up to the next quote of the same kind)
ImgTagAt(text, i) ==
    LET D == { d \in (i + 1)..(Len(text) - 1) :
                 /\ text[d] = InstructionAttr
                 /\ text[d + 1] \in Quotes
                 /\ \A k \in (i + 1)..(d - 1) : text[k] # GT
                 /\ IndexOf(text, text[d + 1], d + 2) # 0
                 /\ IndexOf(text, GT, IndexOf(text, text[d + 1], d + 2) + 1) # 0 }
        d == Max(D)
        close == IndexOf(text, text[d + 1], d + 2)
    IN  IF text[i] # ImgOpen \/ D = {} THEN NoMatch
        ELSE [start |-> i, open |-> d + 1, close |-> close,
              stop |-> IndexOf(text, GT, close + 1)]

\* the matches of imgTagRegex.exec in a loop (flag g): the leftmost match
\* from lastIndex on, then on from its end
RECURSIVE ImgTagMatches(_, _)
ImgTagMatches(text, lastIndex) ==
    LET starts == { i \in lastIndex..Len(text) :
                      text[i] = ImgOpen /\ ImgTagAt(text, i) # NoMatch }
    IN  IF starts = {} THEN <<>>
        ELSE <<ImgTagAt(text, Min(starts))>>
             \o ImgTagMatches(text, ImgTagAt(text, Min(starts)).stop + 1)

\* fullImgTag.match(/src\s*=\s*(['"])([\s\S]*?)\1/i): the first src= that
\* is followed by a quote and, later, by the same quote
SrcMatch(fullImgTag) ==
    LET S == { s \in 1..(Len(fullImgTag) - 1) :
                 /\ fullImgTag[s] = SrcAttr
                 /\ fullImgTag[s + 1] \in Quotes
                 /\ IndexOf(fullImgTag, fullImgTag[s + 1], s + 2) # 0 }
    IN  IF S = {} THEN [found |-> FALSE, from |-> 0, to |-> 0]
        ELSE [found |-> TRUE, from |-> Min(S),
              to |-> IndexOf(fullImgTag, fullImgTag[Min(S) + 1], Min(S) + 2)]

\* srcMatch ? srcMatch[2] : ''
SrcText(fullImgTag) ==
    IF SrcMatch(fullImgTag).found
    THEN SubSeq(fullImgTag, SrcMatch(fullImgTag).from + 2, SrcMatch(fullImgTag).to - 1)
    ELSE <<>>

\* the chain of replace calls on the instruction of an <img> tag
NormalizeJson(instructionJson) ==
    [k \in 1..Len(instructionJson) |->
        IF instructionJson[k] \in {SQ, "&quot;"} THEN DQ
        ELSE IF instructionJson[k] = "&apos;" THEN SQ
        ELSE IF instructionJson[k] = "&amp;" THEN "&"
        ELSE instructionJson[k]]

\* jsonStr.replace(/'/g, '"') of the legacy grammar
NormalizeLegacyJson(jsonStr) ==
    [k \in 1..Len(jsonStr) |-> IF jsonStr[k] = SQ THEN DQ ELSE jsonStr[k]]

\* JSON.parse of an object with string members, with data.prompt || '' and
\* data.style || '': ok is FALSE where JSON.parse throws.  No lexeme is a
\* number or one of true, false, null, and no text of the model has "{" or
\* "[" where a value begins, so every other text is one JSON.parse rejects.
RECURSIVE JsonScan(_, _, _, _, _, _)
JsonScan(s, i, st, key, val, data) ==
    LET bad == [ok |-> FALSE, prompt |-> <<>>, style |-> <<>>]
        c == s[i]
        escaped == i + 1 <= Len(s) /\ s[i + 1] \in {DQ, BS, "/"}
    IN
    IF i > Len(s)
    THEN IF st = "end"
         THEN [ok |-> TRUE, prompt |-> data.prompt, style |-> data.style]
         ELSE bad
    ELSE IF st \in {"key", "val"}
    THEN IF c = BS
         THEN IF ~escaped THEN bad
              ELSE IF st = "key"
              THEN JsonScan(s, i + 2, st, Append(key, s[i + 1]), val, data)
              ELSE JsonScan(s, i + 2, st, key, Append(val, s[i + 1]), data)
         ELSE IF c = DQ
         THEN IF st = "key"
              THEN JsonScan(s, i + 1, "colon", key, val, data)
              ELSE JsonScan(s, i + 1, "after", key, val,
                            IF key = <<"prompt">> THEN [data EXCEPT !.prompt = val]
                            ELSE IF key = <<"style">> THEN [data EXCEPT !.style = val]
                            ELSE data)
         ELSE IF st = "key"
         THEN JsonScan(s, i + 1, st, Append(key, c), val, data)
         ELSE JsonScan(s, i + 1, st, key, Append(val, c), data)
    ELSE IF c = SP THEN JsonScan(s, i + 1, st, key, val, data)
    ELSE CASE st = "open" /\ c = "{" -> JsonScan(s, i + 1, "first", key, val, data)
           [] st = "first" /\ c = "}" -> JsonScan(s, i + 1, "end", key, val, data)
           [] st \in {"first", "next"} /\ c = DQ ->
                JsonScan(s, i + 1, "key", <<>>, val, data)
           [] st = "colon" /\ c = ":" -> JsonScan(s, i + 1, "value", key, val, data)
           [] st = "value" /\ c = DQ -> JsonScan(s, i + 1, "val", key, <<>>, data)
           [] st = "after" /\ c = "," -> JsonScan(s, i + 1, "next", key, val, data)
           [] st = "after" /\ c = "}" -> JsonScan(s, i + 1, "end", key, val, data)
           [] OTHER -> bad

JsonParse(s) ==
    JsonScan(s, 1, "open", <<>>, <<>>, [prompt |-> <<>>, style |-> <<>>])

\* the decision for one <img> tag when the forceAll option is not looked at
NeedsGenerationNoForce(srcValue, checkExistence, forceAll, probe) ==
    IF HasErrorImageText(srcValue) THEN FALSE
    ELSE IF HasMarkerText(srcValue) \/ srcValue = <<>> THEN TRUE
    ELSE IF HasPathText(srcValue) /\ checkExistence
    THEN ~CheckFileExists(probe, srcValue)
    ELSE FALSE

\* the decision of parseImageTags for one <img> tag
NeedsGenerationText(srcValue, checkExistence, forceAll, probe) ==
    IF HasErrorImageText(srcValue) /\ ~forceAll THEN FALSE
    ELSE IF forceAll THEN TRUE
    ELSE IF HasMarkerText(srcValue) \/ srcValue = <<>> THEN TRUE
    ELSE IF HasPathText(srcValue) /\ checkExistence
    THEN ~CheckFileExists(probe, srcValue)
    ELSE FALSE

TextTag(fullMatch, index, data, isNewFormat) ==
    [fullMatch |-> fullMatch, index |-> index, style |-> data.style,
     prompt |-> data.prompt, isNewFormat |-> isNewFormat]

\* the body of the first loop of parseImageTags for the matches k.. of
\* imgTagRegex
RECURSIVE NewFormatTags(_, _, _, _, _, _)
NewFormatTags(text, matches, k, checkExistence, forceAll, probe) ==
    IF k > Len(matches) THEN <<>>
    ELSE LET imgMatch == matches[k]
             fullImgTag == SubSeq(text, imgMatch.start, imgMatch.stop)
             instructionJson == SubSeq(text, imgMatch.open + 1, imgMatch.close - 1)
             data == JsonParse(NormalizeJson(instructionJson))
             rest == NewFormatTags(text, matches, k + 1, checkExistence, forceAll, probe)
         IN  IF /\ NeedsGenerationText(SrcText(fullImgTag), checkExistence, forceAll, probe)
                /\ data.ok
             THEN <<TextTag(fullImgTag, Offset(text, imgMatch.start), data, TRUE)>>
                  \o rest
             ELSE rest

\* the scan that looks for the closing brace, without the string state
RECURSIVE JsonEndNoStrings(_, _, _, _, _)
JsonEndNoStrings(text, i, braceCount, inString, escapeNext) ==
    IF i > Len(text) THEN 0
    ELSE IF text[i] = "{"
    THEN JsonEndNoStrings(text, i + 1, braceCount + 1, inString, escapeNext)
    ELSE IF text[i] = "}"
    THEN IF braceCount - 1 = 0 THEN i
         ELSE JsonEndNoStrings(text, i + 1, braceCount - 1, inString, escapeNext)
    ELSE JsonEndNoStrings(text, i + 1, braceCount, inString, escapeNext)

\* the for loop of the legacy scan from position i: the position of the
\* brace that closes the JSON, 0 when the text ends first
RECURSIVE JsonEnd(_, _, _, _, _)
JsonEnd(text, i, braceCount, inString, escapeNext) ==
    IF i > Len(text) THEN 0
    ELSE IF escapeNext THEN JsonEnd(text, i + 1, braceCount, inString, FALSE)
    ELSE IF text[i] = BS /\ inString
    THEN JsonEnd(text, i + 1, braceCount, inString, TRUE)
    ELSE IF text[i] = DQ
    THEN JsonEnd(text, i + 1, braceCount, ~inString, escapeNext)
    ELSE IF ~inString /\ text[i] = "{"
    THEN JsonEnd(text, i + 1, braceCount + 1, inString, escapeNext)
    ELSE IF ~inString /\ text[i] = "}"
    THEN IF braceCount - 1 = 0 THEN i
         ELSE JsonEnd(text, i + 1, braceCount - 1, inString, escapeNext)
    ELSE JsonEnd(text, i + 1, braceCount, inString, escapeNext)

\* the second loop of parseImageTags from searchStart on
RECURSIVE LegacyTags(_, _)
LegacyTags(text, searchStart) ==
    LET markerIndex == IndexOf(text, LegacyMarker, searchStart)
        jsonStart == markerIndex + 1
        jsonEnd == JsonEnd(text, jsonStart, 0, FALSE, FALSE)
        jsonStr == SubSeq(text, jsonStart, jsonEnd)
        data == JsonParse(NormalizeLegacyJson(jsonStr))
        tagOnly == SubSeq(text, markerIndex, jsonEnd + 1)
    IN  IF markerIndex = 0 THEN <<>>
        ELSE IF jsonEnd = 0 THEN LegacyTags(text, jsonStart)
        ELSE IF jsonEnd + 1 > Len(text) \/ text[jsonEnd + 1] # "]"
        THEN LegacyTags(text, jsonEnd + 1)
        ELSE (IF data.ok
              THEN <<TextTag(tagOnly, Offset(text, markerIndex), data, FALSE)>>
              ELSE <<>>)
             \o LegacyTags(text, jsonEnd + 2)

\* parseImageTags: the tags of the first loop, then those of the second
ParseImageTagsText(text, checkExistence, forceAll, probe) ==
    NewFormatTags(text, ImgTagMatches(text, 1), 1, checkExistence, forceAll, probe)
    \o LegacyTags(text, 1)

\* tag.fullMatch.replace(/src\s*=\s*(['"])[^'"]*\1/i, `src="${value}"`):
\* the first src= whose quote is closed by the next quote of either kind
SrcReplace(fullMatch, value) ==
    LET nextQuote(from) == FirstIndex({k \in from..Len(fullMatch) :
                                          fullMatch[k] \in Quotes})
        S == { s \in 1..(Len(fullMatch) - 1) :
                 /\ fullMatch[s] = SrcAttr
                 /\ fullMatch[s + 1] \in Quotes
                 /\ nextQuote(s + 2) # 0
                 /\ fullMatch[nextQuote(s + 2)] = fullMatch[s + 1] }
    IN  IF S = {} THEN fullMatch
        ELSE SubSeq(fullMatch, 1, Min(S) - 1)
             \o <<SrcAttr, DQ>> \o value \o <<DQ>>
             \o SubSeq(fullMatch, nextQuote(Min(S) + 2) + 1, Len(fullMatch))

\* what String.replace inserts for a replacement given as a string: "$$"
\* in it stands for one "$"
RECURSIVE ExpandReplacement(_)
ExpandReplacement(new) ==
    IF new = <<>> THEN <<>>
    ELSE <<IF Head(new) = DD THEN "$" ELSE Head(new)>> \o ExpandReplacement(Tail(new))

\* message.mes after the try branch of processTag
DoneRewriteText(text, tag, imagePath) ==
    IF tag.isNewFormat
    THEN ReplaceText(text, tag.fullMatch,
                     ExpandReplacement(SrcReplace(tag.fullMatch, <<imagePath>>)))
    ELSE ReplaceText(text, tag.fullMatch,
                     ExpandReplacement(<<CompletionOpen, imagePath, "]">>))

(***************************************************************************)
(* One call of parseImageTags followed on its own on a text, and one       *)
(* rewrite of the text for one of the tags it returned                     *)
(***************************************************************************)
\* {"prompt":"<p>"}
Json(p) == <<"{", DQ, "prompt", DQ, ":", DQ>> \o p \o <<DQ, "}">>

\* <img data-iig-instruction='<json>' src="<src>">
Img(json, src) ==
    <<ImgOpen, InstructionAttr, SQ>> \o json \o <<SQ, SP, SrcAttr, DQ>> \o src
    \o <<DQ, GT>>

\* a piece of text with what its author wrote: an instruction (tag) of the
\* grammar g followed by prose (tail); form is "ok" for a well-formed
\* instruction, "apostrophe" for a well-formed one with an apostrophe in a
\* value, "no prompt" for one whose JSON is valid and gives no prompt, else
\* what is wrong with it; style, prompt and src are those the instruction
\* carries
StyledPiece(tag, tail, g, form, style, prompt, src) ==
    [text |-> tag \o tail, tag |-> tag, g |-> g, form |-> form,
     style |-> style, prompt |-> prompt, src |-> src]

Piece(tag, tail, g, form, prompt, src) ==
    StyledPiece(tag, tail, g, form, <<>>, prompt, src)

TrickyPrompt == <<"a", "}", SP, "[", "b", "]", SP, "{", BS, DQ, "}", "]">>

LegacySrc == <<LegacyMarker, "{", SQ, "prompt", SQ, ":", SQ, "d", SQ, "}", "]">>

Smiley == <<SP, ":", "-", "}">>

Pieces ==
    << Piece(Img(Json(<<"a">>), <<Marker>>), <<>>, "attr", "ok", <<"a">>, <<Marker>>),
       Piece(Img(Json(<<"a">>), <<HalluPath>>), <<>>, "attr", "ok", <<"a">>,
             <<HalluPath>>),
       Piece(Img(Json(<<"b">>), <<RelPath>>), <<>>, "attr", "ok", <<"b">>, <<RelPath>>),
       Piece(Img(Json(<<"b">>), <<ERROR_IMAGE_PATH>>), <<>>, "attr", "ok", <<"b">>,
             <<ERROR_IMAGE_PATH>>),
       Piece(<<ImgOpen, InstructionAttr, SQ>> \o Json(<<"c">>) \o <<SQ, GT>>, <<>>,
             "attr", "ok", <<"c">>, <<>>),
       Piece(Img(<<"{", "prompt", "}">>, <<Marker>>), <<>>, "attr", "bad json", <<>>,
             <<Marker>>),
       Piece(Img(Json(<<"d">>), LegacySrc), <<>>, "attr", "ok", <<"d">>, LegacySrc),
       Piece(<<LegacyMarker>> \o Json(<<"a">>) \o <<"]">>, <<>>, "legacy", "ok",
             <<"a">>, <<>>),
       Piece(<<LegacyMarker>> \o Json(TrickyPrompt) \o <<"]">>, <<>>, "legacy", "ok",
             <<"a", "}", SP, "[", "b", "]", SP, "{", DQ, "}", "]">>, <<>>),
       Piece(<<LegacyMarker, "{">> \o Json(<<"e">>) \o <<"]">>, <<>>, "legacy",
             "bad json", <<>>, <<>>),
       Piece(<<LegacyMarker, "{", "prompt", "}", "]">>, <<>>, "legacy", "bad json",
             <<>>, <<>>),
       Piece(<<LegacyMarker>> \o Json(<<"e">>), <<"x">>, "legacy", "no bracket",
             <<>>, <<>>),
       Piece(<<>>, Smiley, "prose", "prose", <<>>, <<>>),
       Piece(<<LegacyMarker>> \o Json(<<"f">>) \o <<"]">>, Smiley, "legacy", "ok",
             <<"f">>, <<>>),
       Piece(<<ImgOpen, SrcAttr, DQ, HalluPath, DQ, SP, InstructionAttr, SQ>>
             \o Json(<<"g">>) \o <<SQ, GT>>, <<>>, "attr", "ok", <<"g">>,
             <<HalluPath>>),
       Piece(Img(Json(<<DD>>), <<Marker>>), <<>>, "attr", "ok", <<DD>>, <<Marker>>),
       Piece(<<LegacyMarker>> \o Json(<<"i", SQ, "s">>) \o <<"]">>, <<>>, "legacy",
             "apostrophe", <<"i", SQ, "s">>, <<>>),
       Piece(<<ImgOpen, InstructionAttr, DQ,
               "{", "&quot;", "prompt", "&quot;", ":", "&quot;", "i", SQ, "s",
               "&quot;", "}", DQ, SP, SrcAttr, DQ, Marker, DQ, GT>>, <<>>, "attr",
             "apostrophe", <<"i", SQ, "s">>, <<Marker>>),
       StyledPiece(Img(<<"{", DQ, "style", DQ, ":", DQ, "s", DQ, ",">>
                       \o Tail(Json(<<"a">>)), <<Marker>>), <<>>, "attr", "ok",
                   <<"s">>, <<"a">>, <<Marker>>),
       StyledPiece(Img(<<"{", DQ, "style", DQ, ":", DQ, "s", DQ, "}">>, <<Marker>>),
                   <<>>, "attr", "no prompt", <<"s">>, <<>>, <<Marker>>),
       Piece(<<LegacyMarker>> \o Json(<<>>) \o <<"]">>, <<>>, "legacy", "no prompt",
             <<>>, <<>>) >>

\* the texts: up to MaxPieces pieces one after the other
PieceSeqs == UNION { [1..n -> 1..Len(Pieces)] : n \in 1..MaxPieces }

RECURSIVE Concat(_)
Concat(ps) == IF ps = <<>> THEN <<>> ELSE Pieces[Head(ps)].text \o Concat(Tail(ps))

\* the offsets in characters at which the pieces of the text begin
RECURSIVE PieceStarts(_, _)
PieceStarts(ps, offset) ==
    IF ps = <<>> THEN <<>>
    ELSE <<offset>> \o PieceStarts(Tail(ps), offset + Length(Pieces[Head(ps)].text))

\* the paths the <img> pieces of a text carry in src
PathsIn(ps) ==
    { Pieces[ps[n]].src : n \in { m \in 1..Len(ps) :
        Pieces[ps[m]].g = "attr" /\ Pieces[ps[m]].src \in {<<HalluPath>>, <<RelPath>>} } }

ProbeAnswers == {"ok", "missing", "unreachable"}

\* the options of the two calls of the code
Options ==
    { [checkExistence |-> TRUE, forceAll |-> FALSE],
      [checkExistence |-> FALSE, forceAll |-> TRUE] }

IdleParse ==
    [pc |-> "idle", pieces |-> <<>>, starts |-> <<>>, text |-> <<>>, mes |-> <<>>,
     checkExistence |-> FALSE,
     forceAll |-> FALSE, probe |-> <<>>, tags |-> <<>>, k |-> 0,
     searchStart |-> 0, iterations |-> 0]

\* parseImageTags(text, options) with the answers of the server to the
\* HEAD requests
ParseImageTagsCall ==
    /\ px.pc = "text"
    /\ \E o \in Options :
       \E probe \in [PathsIn(px.pieces) -> ProbeAnswers] :
         /\ ~o.checkExistence => \A p \in DOMAIN probe : probe[p] = "ok"
         /\ px' = [px EXCEPT
              !.pc = "parsed", !.checkExistence = o.checkExistence,
              !.forceAll = o.forceAll, !.probe = probe,
              !.tags = ParseImageTagsText(px.text, o.checkExistence, o.forceAll, probe)]
    /\ UNCHANGED <<mes, view, processingMessages, settings, dom, runs, outcome, rt, rs,
                 rq, ui>>

\* the rewrite of message.mes (px.mes, the text that was parsed) for the
\* tag k of the call when its job is Done with the image stored at
\* StoredPath(1, 1)
PersistDone ==
    /\ px.pc = "parsed"
    /\ \E k \in 1..Len(px.tags) :
         px' = [px EXCEPT !.pc = "written", !.k = k,
                          !.mes = DoneRewriteText(px.mes, px.tags[k], StoredPath(1, 1))]
    /\ UNCHANGED <<mes, view, processingMessages, settings, dom, runs, outcome, rt, rs,
                 rq, ui>>

\* one turn of the second loop that goes on from the marker it has found
\* when the brace is not closed
LegacyTurnFromMarker(text, searchStart) ==
    LET markerIndex == IndexOf(text, LegacyMarker, searchStart)
        jsonStart == markerIndex + 1
        jsonEnd == JsonEnd(text, jsonStart, 0, FALSE, FALSE)
        jsonStr == SubSeq(text, jsonStart, jsonEnd)
        data == JsonParse(NormalizeLegacyJson(jsonStr))
        tagOnly == SubSeq(text, markerIndex, jsonEnd + 1)
    IN  IF markerIndex = 0
        THEN [found |-> FALSE, tags |-> <<>>, searchStart |-> searchStart]
        ELSE IF jsonEnd = 0
        THEN [found |-> TRUE, tags |-> <<>>, searchStart |-> markerIndex]
        ELSE IF jsonEnd + 1 > Len(text) \/ text[jsonEnd + 1] # "]"
        THEN [found |-> TRUE, tags |-> <<>>, searchStart |-> jsonEnd + 1]
        ELSE [found |-> TRUE,
              tags |-> IF data.ok
                       THEN <<TextTag(tagOnly, Offset(text, markerIndex), data, FALSE)>>
                       ELSE <<>>,
              searchStart |-> jsonEnd + 2]

\* one turn of the second loop of parseImageTags from searchStart: found is
\* FALSE when indexOf finds no marker and the loop ends, else the tags the
\* turn pushes and the searchStart of the next turn
LegacyTurn(text, searchStart) ==
    LET markerIndex == IndexOf(text, LegacyMarker, searchStart)
        jsonStart == markerIndex + 1
        jsonEnd == JsonEnd(text, jsonStart, 0, FALSE, FALSE)
        jsonStr == SubSeq(text, jsonStart, jsonEnd)
        data == JsonParse(NormalizeLegacyJson(jsonStr))
        tagOnly == SubSeq(text, markerIndex, jsonEnd + 1)
    IN  IF markerIndex = 0
        THEN [found |-> FALSE, tags |-> <<>>, searchStart |-> searchStart]
        ELSE IF jsonEnd = 0
        THEN [found |-> TRUE, tags |-> <<>>, searchStart |-> jsonStart]
        ELSE IF jsonEnd + 1 > Len(text) \/ text[jsonEnd + 1] # "]"
        THEN [found |-> TRUE, tags |-> <<>>, searchStart |-> jsonEnd + 1]
        ELSE [found |-> TRUE,
              tags |-> IF data.ok
                       THEN <<TextTag(tagOnly, Offset(text, markerIndex), data, FALSE)>>
                       ELSE <<>>,
              searchStart |-> jsonEnd + 2]

\* the second loop of parseImageTags followed turn by turn on a text; no
\* turn is followed after as many turns as the text has lexemes
LegacyScanTurn ==
    /\ px.pc = "scan"
    /\ px.iterations <= Len(px.text)
    /\ LET turn == LegacyTurn(px.text, px.searchStart)
       IN  px' = IF turn.found
                 THEN [px EXCEPT !.searchStart = turn.searchStart,
                                 !.tags = @ \o turn.tags,
                                 !.iterations = @ + 1]
                 ELSE [px EXCEPT !.pc = "scanned"]
    /\ UNCHANGED <<mes, view, processingMessages, settings, dom, runs, outcome, rt, rs,
                 rq, ui>>

(***************************************************************************)
(* The search of processTag for the <img> element of a tag, followed on    *)
(* its own on the <img> elements of a view: instr is the value of          *)
(* data-iig-instruction (empty: the element has no such attribute), src    *)
(* the value of src                                                        *)
(***************************************************************************)
ImgElement(instr, src) == [instr |-> instr, src |-> src]

\* the longest prefix of lexemes of s that has at most n characters
RECURSIVE TakeChars(_, _)
TakeChars(s, n) ==
    IF s = <<>> \/ Chars(Head(s)) > n THEN <<>>
    ELSE <<Head(s)>> \o TakeChars(Tail(s), n - Chars(Head(s)))

\* tag.prompt.substring(0, 30)
SearchPrompt(prompt) == TakeChars(prompt, 30)

\* the five replace calls of strategy 1
DecodeEntities(s) ==
    [k \in 1..Len(s) |->
        IF s[k] \in {"&quot;", "&#34;"} THEN DQ
        ELSE IF s[k] \in {"&apos;", "&#39;"} THEN SQ
        ELSE IF s[k] = "&amp;" THEN "&"
        ELSE s[k]]

\* String.includes for strings of lexemes
IncludesText(text, pat) == pat = <<>> \/ IndexOfText(text, pat) # 0

\* strategy 1: the decoded instruction holds the decoded search prompt
Strategy1(img, prompt) ==
    IncludesText(DecodeEntities(img.instr), DecodeEntities(SearchPrompt(prompt)))

\* strategy 2: the instruction parses and its prompt begins as the prompt
\* of the tag does
Strategy2(img, prompt) ==
    LET instructionData == JsonParse(NormalizeLegacyJson(DecodeEntities(img.instr)))
    IN  /\ instructionData.ok
        /\ instructionData.prompt # <<>>
        /\ SearchPrompt(instructionData.prompt) = SearchPrompt(prompt)

\* strategy 3: the instruction as it is holds the search prompt as it is
Strategy3(img, prompt) == IncludesText(img.instr, SearchPrompt(prompt))

\* the alternative: an element with the attribute whose src holds a marker
\* or is empty
SrcMarkerMatch(img) ==
    /\ img.instr # <<>>
    /\ \/ img.src \in {<<>>, <<"#">>}
       \/ \E k \in 1..Len(img.src) : img.src[k] \in {Marker, "[IMG:ERROR]"}

\* strategy 4: any <img> whose src holds a marker
BroadMatch(img) ==
    \E k \in 1..Len(img.src) : img.src[k] \in {Marker, "[IMG:ERROR]"}

\* targetElement of the new-format branch of processTag: the position of
\* the element in the view, 0 for null
TargetElement(imgs, prompt) ==
    LET byPrompt == FirstIndex({i \in 1..Len(imgs) :
                        /\ imgs[i].instr # <<>>
                        /\ \/ Strategy1(imgs[i], prompt)
                           \/ Strategy2(imgs[i], prompt)
                           \/ Strategy3(imgs[i], prompt)})
        bySrc == FirstIndex({i \in 1..Len(imgs) : SrcMarkerMatch(imgs[i])})
        broad == FirstIndex({i \in 1..Len(imgs) : BroadMatch(imgs[i])})
    IN  IF byPrompt # 0 THEN byPrompt
        ELSE IF bySrc # 0 THEN bySrc
        ELSE broad

\* the <img> elements of the views
ImgElements ==
    { ImgElement(Json(<<"x">>), <<Marker>>),
      ImgElement(Json(<<"x", BS, DQ, "y">>), <<Marker>>),
      ImgElement(Json(<<"x", DQ, "y">>), <<Marker>>),
      ImgElement(Json(<<"z">>), <<Marker>>),
      ImgElement(Json(<<"z">>), <<HalluPath>>),
      ImgElement(<<>>, <<Marker>>),
      ImgElement(Json(<<"x", LongWord, "k">>), <<HalluPath>>) }

\* the prompts of the tags
TagPrompts ==
    { <<"x">>, <<"x", DQ, "y">>, <<"x", LongWord, "y">>, <<>> }

Views == UNION {[1..n -> ImgElements] : n \in 1..MaxNodes}

IdleResolve == [pc |-> "idle", imgs |-> <<>>, prompt |-> <<>>, target |-> 0]

\* the search of processTag for a tag of the new format
FindTargetElement ==
    /\ rs.pc = "view"
    /\ rs' = [rs EXCEPT !.pc = "found",
                        !.target = TargetElement(rs.imgs, rs.prompt)]
    /\ UNCHANGED <<mes, view, processingMessages, settings, dom, runs, outcome, rt, px,
                 rq, ui>>

(***************************************************************************)
(* The request of the provider adapters, followed on its own: the options  *)
(* of a tag and the settings give the size of the bitmap protocol          *)
(* (generateImageOpenAI) and the aspect ratio and the resolution tier of   *)
(* the multimodal protocol (generateImageGemini)                           *)
(***************************************************************************)
\* null, and the value of a field that is not there
Null == "null"

VALID_ASPECT_RATIOS ==
    <<"1:1", "2:3", "3:2", "3:4", "4:3", "4:5", "5:4", "9:16", "16:9", "21:9">>

VALID_IMAGE_SIZES == <<"1K", "2K", "4K">>

\* Array.prototype.includes
ArrayIncludes(array, value) == \E i \in 1..Len(array) : array[i] = value

\* a || b for strings and null
OrElse(a, b) == IF a \in {Null, ""} THEN b ELSE a

\* size of generateImageOpenAI
OpenAISize(options, s) ==
    IF options.aspectRatio \in {Null, ""} THEN s.size
    ELSE IF options.aspectRatio = "16:9" THEN "1792x1024"
    ELSE IF options.aspectRatio = "9:16" THEN "1024x1792"
    ELSE IF options.aspectRatio = "1:1" THEN "1024x1024"
    ELSE s.size

\* aspectRatio of generateImageGemini without the validation
GeminiAspectRatioUnchecked(options, s) ==
    OrElse(OrElse(options.aspectRatio, s.aspectRatio), "1:1")

\* aspectRatio of generateImageGemini
GeminiAspectRatio(options, s) ==
    LET aspectRatio == OrElse(OrElse(options.aspectRatio, s.aspectRatio), "1:1")
    IN  IF ~ArrayIncludes(VALID_ASPECT_RATIOS, aspectRatio)
        THEN IF ArrayIncludes(VALID_ASPECT_RATIOS, s.aspectRatio)
             THEN s.aspectRatio ELSE "1:1"
        ELSE aspectRatio

\* imageSize of generateImageGemini
GeminiImageSize(options, s) ==
    LET imageSize == OrElse(OrElse(options.imageSize, s.imageSize), "1K")
    IN  IF ~ArrayIncludes(VALID_IMAGE_SIZES, imageSize)
        THEN IF ArrayIncludes(VALID_IMAGE_SIZES, s.imageSize)
             THEN s.imageSize ELSE "1K"
        ELSE imageSize

\* the values a tag may carry: data.aspect_ratio || data.aspectRatio || null
TagAspectRatios ==
    {VALID_ASPECT_RATIOS[i] : i \in 1..Len(VALID_ASPECT_RATIOS)}
    \cup {Null, "7:3", "16x9"}

TagImageSizes ==
    {VALID_IMAGE_SIZES[i] : i \in 1..Len(VALID_IMAGE_SIZES)} \cup {Null, "8K", "1k"}

\* the values of the settings: those of the panel, and what a settings file
\* of another version may hold
ConfiguredSizes == {"1024x1024", "1792x1024", "1024x1792", "512x512"}
ConfiguredAspectRatios == {"1:1", "16:9", "4:5", "", "auto", Null}
ConfiguredImageSizes == {"1K", "2K", "4K", "", "HD", Null}

IdleRequest ==
    [pc |-> "idle", apiType |-> "",
     options |-> [aspectRatio |-> Null, imageSize |-> Null],
     settings |-> [size |-> "", aspectRatio |-> "", imageSize |-> ""],
     body |-> [size |-> Null, aspectRatio |-> Null, imageSize |-> Null]]

\* generateImageOpenAI up to fetch: the body of the request
GenerateImageOpenAI ==
    /\ rq.pc = "options"
    /\ rq.apiType = "openai"
    /\ rq' = [rq EXCEPT !.pc = "request",
                        !.body.size = OpenAISize(rq.options, rq.settings)]
    /\ UNCHANGED <<mes, view, processingMessages, settings, dom, runs, outcome, rt,
                   px, rs, ui>>

\* generateImageGemini up to fetch: the imageConfig of the request
GenerateImageGemini ==
    /\ rq.pc = "options"
    /\ rq.apiType = "gemini"
    /\ rq' = [rq EXCEPT !.pc = "request",
                        !.body.aspectRatio = GeminiAspectRatio(rq.options, rq.settings),
                        !.body.imageSize = GeminiImageSize(rq.options, rq.settings)]
    /\ UNCHANGED <<mes, view, processingMessages, settings, dom, runs, outcome, rt,
                   px, rs, ui>>

(***************************************************************************)
(* The max-retries input of the settings panel: the value of the input     *)
(* element is a string, here the sequence of its characters                *)
(***************************************************************************)
\* a number, or NaN
Number(n) == [nan |-> FALSE, n |-> n]
NaN == [nan |-> TRUE, n |-> 0]

Digits == <<"0", "1", "2", "3", "4", "5", "6", "7", "8", "9">>

IsDigit(c) == \E d \in 1..Len(Digits) : Digits[d] = c

DigitValue(c) == (CHOOSE d \in 1..Len(Digits) : Digits[d] = c) - 1

\* the digits at the head of a string, as a number
RECURSIVE LeadingNumber(_, _, _)
LeadingNumber(s, i, n) ==
    IF i > Len(s) \/ ~IsDigit(s[i]) THEN n
    ELSE LeadingNumber(s, i + 1, 10 * n + DigitValue(s[i]))

\* parseInt(string): white space is skipped, the digits that follow are
\* read up to the first character that is none, NaN when there is no digit
\* (no value of the model carries a sign)
RECURSIVE ParseInt(_)
ParseInt(s) ==
    IF s = <<>> THEN NaN
    ELSE IF Head(s) = " " THEN ParseInt(Tail(s))
    ELSE IF ~IsDigit(Head(s)) THEN NaN
    ELSE Number(LeadingNumber(s, 1, 0))

\* a || b for a number a: NaN and 0 are falsy
NumberOrElse(a, b) == IF a.nan \/ a.n = 0 THEN b ELSE a.n

\* what may be typed into the input: the integers of its range 0..5, a
\* fraction, nothing, and a word
InputValues ==
    { <<Digits[n + 1]>> : n \in 0..5 }
    \cup { <<"2", ".", "5">>, <<" ", "4">>, <<>>, <<"x">> }

IdleInput == [value |-> <<>>, events |-> 0]

\* the input event of #iig_max_retries, before a generation is started
MaxRetriesInput ==
    /\ rt.pc = "idle"
    /\ ui.events = 0
    /\ \E value \in InputValues :
         /\ settings' = [settings EXCEPT
                            !.maxRetries = NumberOrElse(ParseInt(value), 3)]
         /\ ui' = [value |-> value, events |-> ui.events + 1]
    /\ UNCHANGED <<mes, view, processingMessages, dom, runs, outcome, rt, px, rs, rq>>

(***************************************************************************)
(* Initial states                                                          *)
(***************************************************************************)
Settings(enabled, endpoint, apiKey, model, maxRetries, retryDelay) ==
    [enabled |-> enabled, endpoint |-> endpoint, apiKey |-> apiKey,
     model |-> model, maxRetries |-> maxRetries, retryDelay |-> retryDelay]

InitSettings ==
    { Settings(TRUE, TRUE, TRUE, TRUE, DefaultMaxRetries, DefaultRetryDelay),
      Settings(TRUE, TRUE, TRUE, TRUE, 1, DefaultRetryDelay),
      Settings(TRUE, FALSE, TRUE, TRUE, DefaultMaxRetries, DefaultRetryDelay),
      Settings(TRUE, TRUE, FALSE, TRUE, DefaultMaxRetries, DefaultRetryDelay),
      Settings(TRUE, TRUE, TRUE, FALSE, 1, DefaultRetryDelay),
      Settings(FALSE, TRUE, TRUE, TRUE, DefaultMaxRetries, DefaultRetryDelay) }

ValidSettings ==
    { s \in InitSettings : s.enabled /\ ValidateSettings(s) = <<>> }

OneTagMessages ==
    { <<AttrTag("p1", Marker)>>,
      <<AttrTag("p1", "")>>,
      <<AttrTag("p1", NoSrc)>>,
      <<AttrTag("p1", HalluPath)>>,
      <<LegacyTag("p1")>> }

TwoTagMessages ==
    { <<AttrTag("p1", Marker), AttrTag("p2", Marker)>>,
      <<AttrTag("p1", Marker), AttrTag("p1", Marker)>>,
      <<AttrTag("p1", NoSrc), AttrTag("p2", Marker)>>,
      <<LegacyTag("p1"), AttrTag("p2", Marker)>>,
      <<LegacyTag("p1"), LegacyTag("p2")>>,
      <<AttrTag("BAD", Marker), LegacyTag("p1")>> }

InitDom == {"ok", "no .mes", "no .mes_text"}

\* the starting points: every message with every settings, the retries of
\* a working configuration on the message of one pending <img> tag only
Scenarios ==
    { sc \in (OneTagMessages \cup TwoTagMessages) \X InitSettings \X InitDom :
        /\ sc[1] # <<AttrTag("p1", Marker)>> /\ sc[2] \in ValidSettings
              => sc[2].maxRetries = DefaultMaxRetries
        /\ sc[3] # "ok" => sc[2] \in ValidSettings /\ sc[2].maxRetries = DefaultMaxRetries }

Init ==
    /\ \E sc \in Scenarios : mes = sc[1] /\ settings = sc[2] /\ dom = sc[3]
    /\ view = Render(mes)
    /\ processingMessages = {}
    /\ runs = [r \in 1..MaxRuns |-> IdleRun]
    /\ outcome = [i \in 1..Len(mes) |-> "none"]
    /\ rt = IdleCall
    /\ px = IdleParse
    /\ rs = IdleResolve
    /\ rq = IdleRequest
    /\ ui = IdleInput

Next ==
    \/ \E r \in 1..MaxRuns : ProcessMessageTags(r)
    \/ \E r \in 1..MaxRuns : ProcessAdmit(r)
    \/ \E r \in 1..MaxRuns : RegenerateMessageImages(r)
    \/ \E r \in 1..MaxRuns : RegenAdmit(r)
    \/ \E r \in 1..MaxRuns : \E j \in 1..Len(runs[r].jobs) : ProviderResponse(r, j)
    \/ \E r \in 1..MaxRuns : \E j \in 1..Len(runs[r].jobs) : BackoffElapsed(r, j)
    \/ \E r \in 1..MaxRuns : \E j \in 1..Len(runs[r].jobs) : StoreReturns(r, j)
    \/ \E r \in 1..MaxRuns : \E j \in 1..Len(runs[r].jobs) : StoreFails(r, j)
    \/ \E r \in 1..MaxRuns : SaveChatReturns(r)

Spec == Init /\ [][Next]_vars

RetrySettings ==
    { Settings(TRUE, e, TRUE, TRUE, n, d) :
        e \in BOOLEAN, n \in 0..MaxRetries, d \in 1..MaxDelay }

RetryInit ==
    /\ mes = <<AttrTag("p1", Marker)>>
    /\ view = Render(mes)
    /\ processingMessages = {}
    /\ settings \in RetrySettings
    /\ dom = "ok"
    /\ runs = [r \in 1..MaxRuns |-> IdleRun]
    /\ outcome = [i \in 1..Len(mes) |-> "none"]
    /\ rt = IdleCall
    /\ px = IdleParse
    /\ rs = IdleResolve
    /\ rq = IdleRequest
    /\ ui = IdleInput

RetryNext == GenerateImageWithRetry \/ GenerateResponse \/ GenerateWake

RetrySpec == RetryInit /\ [][RetryNext]_vars

ParseInit ==
    /\ mes = <<>>
    /\ view = <<>>
    /\ processingMessages = {}
    /\ settings = Settings(TRUE, TRUE, TRUE, TRUE, DefaultMaxRetries, DefaultRetryDelay)
    /\ dom = "ok"
    /\ runs = [r \in 1..MaxRuns |-> IdleRun]
    /\ outcome = <<>>
    /\ rt = IdleCall
    /\ \E ps \in PieceSeqs :
         px = [IdleParse EXCEPT !.pc = "text", !.pieces = ps,
                                !.starts = PieceStarts(ps, 0), !.text = Concat(ps),
                                !.mes = Concat(ps)]
    /\ rs = IdleResolve
    /\ rq = IdleRequest
    /\ ui = IdleInput

ParseNext == ParseImageTagsCall \/ PersistDone

ParseSpec == ParseInit /\ [][ParseNext]_vars

ScanInit ==
    /\ mes = <<>>
    /\ view = <<>>
    /\ processingMessages = {}
    /\ settings = Settings(TRUE, TRUE, TRUE, TRUE, DefaultMaxRetries, DefaultRetryDelay)
    /\ dom = "ok"
    /\ runs = [r \in 1..MaxRuns |-> IdleRun]
    /\ outcome = <<>>
    /\ rt = IdleCall
    /\ \E ps \in PieceSeqs :
         px = [IdleParse EXCEPT !.pc = "scan", !.pieces = ps,
                                !.starts = PieceStarts(ps, 0), !.text = Concat(ps),
                                !.mes = Concat(ps), !.searchStart = 1]
    /\ rs = IdleResolve
    /\ rq = IdleRequest
    /\ ui = IdleInput

ScanNext == LegacyScanTurn

ScanSpec == ScanInit /\ [][ScanNext]_vars

ResolveInit ==
    /\ mes = <<>>
    /\ view = <<>>
    /\ processingMessages = {}
    /\ settings = Settings(TRUE, TRUE, TRUE, TRUE, DefaultMaxRetries, DefaultRetryDelay)
    /\ dom = "ok"
    /\ runs = [r \in 1..MaxRuns |-> IdleRun]
    /\ outcome = <<>>
    /\ rt = IdleCall
    /\ px = IdleParse
    /\ \E imgs \in Views : \E prompt \in TagPrompts :
         rs = [IdleResolve EXCEPT !.pc = "view", !.imgs = imgs, !.prompt = prompt]
    /\ rq = IdleRequest
    /\ ui = IdleInput

ResolveNext == FindTargetElement

ResolveSpec == ResolveInit /\ [][ResolveNext]_vars

\* one automatic run followed on its own, with every answer of the provider
JobMessages ==
    { <<AttrTag("p1", Marker)>>,
      <<LegacyTag("p1")>>,
      <<AttrTag("p1", Marker), LegacyTag("p2")>> }

JobInit ==
    /\ mes \in JobMessages
    /\ view = Render(mes)
    /\ processingMessages = {}
    /\ settings \in ValidSettings
    /\ dom = "ok"
    /\ runs = [r \in 1..MaxRuns |-> IdleRun]
    /\ outcome = [i \in 1..Len(mes) |-> "none"]
    /\ rt = IdleCall
    /\ px = IdleParse
    /\ rs = IdleResolve
    /\ rq = IdleRequest
    /\ ui = IdleInput

JobNext ==
    \/ ProcessMessageTags(1)
    \/ ProcessAdmit(1)
    \/ \E j \in 1..Len(runs[1].jobs) : ProviderResponseOfAny(1, j)
    \/ \E j \in 1..Len(runs[1].jobs) : BackoffElapsed(1, j)
    \/ \E j \in 1..Len(runs[1].jobs) : StoreReturns(1, j)
    \/ \E j \in 1..Len(runs[1].jobs) : StoreFails(1, j)
    \/ SaveChatReturns(1)

JobSpec == JobInit /\ [][JobNext]_vars

RequestInit ==
    /\ mes = <<>>
    /\ view = <<>>
    /\ processingMessages = {}
    /\ settings = Settings(TRUE, TRUE, TRUE, TRUE, DefaultMaxRetries, DefaultRetryDelay)
    /\ dom = "ok"
    /\ runs = [r \in 1..MaxRuns |-> IdleRun]
    /\ outcome = <<>>
    /\ rt = IdleCall
    /\ px = IdleParse
    /\ rs = IdleResolve
    /\ \E apiType \in {"openai", "gemini"} :
       \E aspectRatio \in TagAspectRatios, imageSize \in TagImageSizes :
       \E size \in ConfiguredSizes, ratio \in ConfiguredAspectRatios,
          tier \in ConfiguredImageSizes :
         rq = [IdleRequest EXCEPT
                 !.pc = "options", !.apiType = apiType,
                 !.options = [aspectRatio |-> aspectRatio, imageSize |-> imageSize],
                 !.settings = [size |-> size, aspectRatio |-> ratio,
                               imageSize |-> tier]]
    /\ ui = IdleInput

RequestNext == GenerateImageOpenAI \/ GenerateImageGemini

RequestSpec == RequestInit /\ [][RequestNext]_vars

\* the settings as they are installed, then the input event and one call of
\* generateImageWithRetry
InputInit ==
    /\ mes = <<AttrTag("p1", Marker)>>
    /\ view = Render(mes)
    /\ processingMessages = {}
    /\ settings = Settings(TRUE, TRUE, TRUE, TRUE, DefaultMaxRetries, DefaultRetryDelay)
    /\ dom = "ok"
    /\ runs = [r \in 1..MaxRuns |-> IdleRun]
    /\ outcome = [i \in 1..Len(mes) |-> "none"]
    /\ rt = IdleCall
    /\ px = IdleParse
    /\ rs = IdleResolve
    /\ rq = IdleRequest
    /\ ui = IdleInput

InputNext ==
    MaxRetriesInput \/ GenerateImageWithRetry \/ GenerateResponse \/ GenerateWake

InputSpec == InputInit /\ [][InputNext]_vars

(***************************************************************************)
(* Properties                                                              *)
(***************************************************************************)
RunIds == 1..MaxRuns
JobIds(r) == 1..Len(runs[r].jobs)
MissingConfig(s) == ~s.endpoint \/ ~s.apiKey \/ ~s.model
PathWritten(text, imagePath) ==
    \E i \in 1..Len(text) : text[i].src = <<imagePath>>
Statuses(resps) == [k \in 1..Len(resps) |-> resps[k].status]

\* C1: when processMessageTags is called for a message while an earlier
\* call for it is between its start and its join and that earlier call runs
\* jobs, the later call starts no job (and so touches neither message.mes
\* nor the view).
C1_SecondTriggerStartsNoJob ==
    \A r \in RunIds, q \in RunIds :
        ( /\ runs[r].kind = "auto" /\ runs[q].kind = "auto"
          /\ q \in runs[r].during
          /\ Len(runs[q].jobs) > 0 )
        => Len(runs[r].jobs) = 0

\* C2: at every moment at most one run of the message, automatic or
\* regenerate, has started its jobs and not yet joined them.
C2_AtMostOneActiveRun ==
    Cardinality({r \in RunIds : runs[r].pc = "jobs"}) <= 1

\* C3: an automatic call that begins after the job of an instruction has
\* reached Done sends no provider request for that instruction.
C3_DoneNeverRedispatched ==
    \A r \in RunIds : runs[r].kind = "auto" =>
        \A j \in JobIds(r) :
            runs[r].jobs[j].calls > 0
            => runs[r].seen[runs[r].jobs[j].tag.index] # "Done"

\* C4: an automatic call that begins after the job of an instruction has
\* ended in Error in an automatic run (and no regenerate has taken the
\* instruction up since) sends no provider request for that instruction.
C4_ErrorNeverRedispatched ==
    \A r \in RunIds : runs[r].kind = "auto" =>
        \A j \in JobIds(r) :
            runs[r].jobs[j].calls > 0
            => runs[r].seen[runs[r].jobs[j].tag.index] # "Error"

C6_SiblingPathWritten ==
    [][ \A r \in RunIds :
          (runs[r].pc = "jobs" /\ runs'[r].pc = "save") =>
            \A j \in 1..Len(runs'[r].jobs) :
              ( /\ runs'[r].jobs[j].st = "Done"
                /\ \E k \in 1..Len(runs'[r].jobs) : runs'[r].jobs[k].st = "Error" )
              => PathWritten(mes', runs'[r].jobs[j].path) ]_vars

C8_BackoffTiming ==
    /\ \A k \in 1..Len(rt.waits) : rt.waits[k] = rt.baseDelay * Pow2(k - 1)
    /\ rt.pc = "wait" => Len(rt.waits) = rt.calls /\ rt.attempt < rt.maxRetries
    /\ rt.pc \in {"call", "returned"} => Len(rt.waits) = rt.calls - 1
    /\ rt.pc = "thrown" /\ rt.calls > 0 => Len(rt.waits) = rt.calls - 1
    /\ ( /\ rt.maxRetries = 2
         /\ Len(rt.resps) = 3
         /\ Statuses(rt.resps) = <<"503", "503", "200">>
         /\ rt.resps[3].body # <<>> )
       => /\ rt.pc = "returned"
          /\ rt.calls = 3
          /\ rt.waits = <<rt.baseDelay, 2 * rt.baseDelay>>

C8_Witness ==
    /\ rt.pc = "returned"
    /\ rt.maxRetries = 2
    /\ rt.baseDelay = 2
    /\ Statuses(rt.resps) = <<"503", "503", "200">>

TerminalClass(resp) ==
    /\ resp.kind = "http"
    /\ resp.status \notin {"200", "429", "502", "503", "504"}

\* C10: a provider failure outside the retryable classes ends the job at
\* once: no wait and no further provider call follows it, whatever the
\* ceiling and the text of the error body.
C10_TerminalNeverRetried ==
    \A k \in 1..Len(rt.resps) :
        TerminalClass(rt.resps[k]) => k = Len(rt.resps) /\ rt.pc = "thrown"

(***************************************************************************)
(* Properties of parseImageTags and of the rewrites on the text            *)
(***************************************************************************)
Parsed == px.pc = "parsed"
PieceIds == 1..Len(px.pieces)
PieceAt(n) == Pieces[px.pieces[n]]

\* the call has returned a tag that begins where piece n begins
Returned(n) ==
    \E k \in 1..Len(px.tags) : px.tags[k].index = px.starts[n]

\* the end of the span of a tag: index + length of fullMatch
SpanEnd(tag) == tag.index + Length(tag.fullMatch)

\* piece n is a well-formed instruction that is pending whatever the mode:
\* a legacy tag, or an <img> tag whose src is empty or holds a marker
PendingPiece(n) ==
    /\ PieceAt(n).form = "ok"
    /\ \/ PieceAt(n).g = "legacy"
       \/ PieceAt(n).src = <<>>
       \/ HasMarkerText(PieceAt(n).src)

\* C11: the tags parseImageTags returns are in document order: the index
\* fields of the returned list are strictly increasing, also for a text
\* that mixes the two grammars.
C11_DocumentOrder ==
    Parsed => \A a, b \in 1..Len(px.tags) :
                  a < b => px.tags[a].index < px.tags[b].index

\* C12: a tag whose instruction JSON cannot be decoded is absent from the
\* result, and every well-formed pending tag located after it in the text,
\* in either grammar, is returned.
C12_MalformedJsonSkipsOnlyItself ==
    Parsed =>
        \A n \in PieceIds :
            /\ PieceAt(n).form = "bad json" => ~Returned(n)
            /\ ( /\ PendingPiece(n)
                 /\ \E m \in PieceIds : m < n /\ PieceAt(m).form = "bad json" )
               => Returned(n)

\* no piece before piece n leaves a brace open for the legacy scan
ScanReaches(n) ==
    \A m \in PieceIds :
        m < n => ~(PieceAt(m).g = "legacy" /\ PieceAt(m).form = "bad json")

C14_SpansDisjoint ==
    Parsed => \A a, b \in 1..Len(px.tags) :
                  a # b => \/ SpanEnd(px.tags[a]) <= px.tags[b].index
                           \/ SpanEnd(px.tags[b]) <= px.tags[a].index

Written == px.pc = "written"

\* C15: when a job reaches Done, message.mes changes only inside the span
\* of its instruction, the text at the parsed index: the text before the
\* span and the text after it are the same before and after the rewrite,
\* also when the message holds several tags with the same text and
\* whichever job settles first.
C15_DoneChangesOnlyOwnSpan ==
    Written =>
        LET tag == px.tags[px.k]
            from == PosOf(px.text, tag.index)
            to == from + Len(tag.fullMatch) - 1
            after == Len(px.text) - to
        IN  /\ Len(px.mes) >= from - 1 + after
            /\ SubSeq(px.mes, 1, from - 1) = SubSeq(px.text, 1, from - 1)
            /\ SubSeq(px.mes, Len(px.mes) - after + 1, Len(px.mes))
                 = SubSeq(px.text, to + 1, Len(px.text))

\* C16: applying the Done rewrite a second time with the same instruction
\* and the same stored path leaves message.mes as the first application
\* left it, for every message text.
C16_DoneRewriteIdempotent ==
    Written => DoneRewriteText(px.mes, px.tags[px.k], StoredPath(1, 1)) = px.mes

\* C17: for an <img> tag whose src holds the pending marker, after the
\* rewrite of a successful generation the tag in message.mes has src equal
\* to the path the store returned and the same data-iig-instruction value.
C17_SrcIsStoredPath ==
    Written =>
        \A n \in PieceIds :
            ( /\ PieceAt(n).g = "attr"
              /\ PieceAt(n).form = "ok"
              /\ PieceAt(n).src = <<Marker>>
              /\ px.tags[px.k].index = px.starts[n] )
            => LET from == PosOf(px.text, px.starts[n])
                   tag == Img(Json(PieceAt(n).prompt), <<StoredPath(1, 1)>>)
               IN  SubSeq(px.mes, from, from + Len(tag) - 1) = tag

\* the job (r, j) ends in Error in this step
EndsInError(r, j) ==
    /\ j \in 1..Len(runs'[r].jobs)
    /\ runs'[r].jobs[j].st = "Error"
    /\ \/ j > Len(runs[r].jobs)
       \/ runs[r].jobs[j].st # "Error"

\* the error sentinel of the grammar of the tag, for the error message
ErrorSentinel(tag, message) ==
    IF tag.isNewFormat
    THEN [tag.fullMatch EXCEPT !.src = <<ERROR_IMAGE_PATH>>]
    ELSE ErrorMarker(message)

\* C18: every job that ends in Error, in an automatic run or in a
\* regenerate run, leaves the error sentinel of its grammar in message.mes
\* at its instruction: "[IMG:ERROR:", the first 50 characters of the error
\* message and "]" for a legacy tag, src set to the error image path for an
\* <img> tag; the sentinel is not the text of a pending tag.
C18_ErrorLeavesSentinel ==
    [][\A r \in RunIds : \A j \in 1..MaxJobs :
          EndsInError(r, j) =>
            LET job == runs'[r].jobs[j]
            IN  /\ mes'[job.tag.index] = ErrorSentinel(job.tag, job.error)
                /\ mes'[job.tag.index] # job.tag.fullMatch
                /\ SrcValue(mes'[job.tag.index]) # Marker]_vars

\* C19: in the call with the existence check and without forceAll, an <img>
\* tag with a decodable instruction whose src holds a path and no marker is
\* returned exactly when the probe reports the path missing (a probe that
\* cannot reach the server counts as missing), for every form of path.
C19_ProbeDecides ==
    (Parsed /\ px.checkExistence /\ ~px.forceAll) =>
        \A n \in PieceIds :
            ( /\ PieceAt(n).g = "attr"
              /\ PieceAt(n).form = "ok"
              /\ PieceAt(n).src \in {<<HalluPath>>, <<RelPath>>} )
            => (Returned(n) <=> px.probe[PieceAt(n).src] # "ok")

\* C20: with forceAll parseImageTags returns every <img> tag whose
\* instruction JSON decodes, whatever its src holds (marker, path, error
\* image, nothing); without forceAll no tag whose src holds the error image
\* is returned.
C20_ForceAll ==
    Parsed =>
        /\ px.forceAll =>
             \A n \in PieceIds :
                 PieceAt(n).g = "attr" /\ PieceAt(n).form = "ok" =>
                   \E k \in 1..Len(px.tags) :
                       /\ px.tags[k].index = px.starts[n]
                       /\ px.tags[k].isNewFormat
                       /\ px.tags[k].fullMatch = PieceAt(n).tag
                       /\ px.tags[k].prompt = PieceAt(n).prompt
        /\ ~px.forceAll =>
             /\ \A k \in 1..Len(px.tags) :
                    px.tags[k].isNewFormat =>
                        ~HasErrorImageText(SrcText(px.tags[k].fullMatch))
             /\ \A n \in PieceIds :
                    PieceAt(n).src = <<ERROR_IMAGE_PATH>> => ~Returned(n)

C20_Witness ==
    /\ Parsed
    /\ px.forceAll
    /\ \E n, m \in PieceIds :
         /\ PieceAt(n).src = <<ERROR_IMAGE_PATH>>
         /\ PieceAt(m).src = <<HalluPath>>
         /\ \E k \in 1..Len(px.tags) :
              /\ px.tags[k].index = px.starts[n]
              /\ px.tags[k].prompt = PieceAt(n).prompt
         /\ Returned(m)

(***************************************************************************)
(* Properties of the jobs and of the rendered view                         *)
(***************************************************************************)
\* this step is the one in which the automatic run r starts its jobs
StartsJobs(r) ==
    /\ runs[r].kind = "auto"
    /\ runs[r].pc = "parse"
    /\ runs'[r].pc = "jobs"

\* no strategy of processTag finds a node of the view v for the tag
Missed(v, tag, tid) ==
    IF tag.isNewFormat THEN ResolveNew(v, tag) = 0
    ELSE ResolveLegacy(v, tag, tid) = 0

\* C21: when no strategy of processTag finds a node of the view for an
\* instruction, the job appends a loading placeholder of its own to the
\* view and its provider call goes out all the same, as does the call of
\* every other job of the run.
C21_MissAppendsPlaceholder ==
    [][\A r \in RunIds :
          StartsJobs(r) =>
            LET jobs == runs'[r].jobs
                tags == [k \in 1..Len(jobs) |-> jobs[k].tag]
            IN  \A j \in 1..Len(jobs) :
                  Missed(PlaceAll(view, SubSeq(tags, 1, j - 1), r, 1),
                         tags[j], AutoTagId(j))
                  => /\ \E i \in (Len(view) + 1)..Len(view') :
                          /\ view'[i].k = "loading"
                          /\ view'[i].tid = AutoTagId(j)
                     /\ \A k \in 1..Len(jobs) :
                          /\ jobs[k].st = "Generating"
                          /\ jobs[k].calls = 1]_vars

C21_Witness ==
    \E r \in RunIds : \E j \in 1..MaxJobs :
        /\ runs[r].kind = "auto"
        /\ j \in JobIds(r)
        /\ runs[r].jobs[j].st = "Generating"
        /\ \E i \in (Len(mes) + 1)..Len(view) :
             view[i].k = "loading" /\ view[i].own = <<r, j>>

\* the job (r, j) exists before and after this step
SameJob(r, j) == j \in JobIds(r) /\ j \in 1..Len(runs'[r].jobs)

\* C22: the jobs of one run, automatic or regenerate, are started together:
\* when a job of the run settles, every job of the run has been started
\* before, none is still waiting for a sibling to settle.
C22_StartedBeforeAnySettles ==
    [][\A r \in RunIds : \A j \in 1..MaxJobs :
          ( /\ SameJob(r, j)
            /\ ~Settled(runs[r].jobs[j])
            /\ Settled(runs'[r].jobs[j]) )
          => \A k \in JobIds(r) : runs[r].jobs[k].st # "Pending"]_vars

\* C23: from the admission of a run until its saveChat and its rebuild of
\* the view have finished, the message id is in processingMessages.
C23_GuardHeldUntilSaved ==
    \A r \in RunIds :
        runs[r].pc \in {"jobs", "save"} => MessageId \in processingMessages

\* C24: whenever no run is active for the message, its id is not in
\* processingMessages: every path out of processMessageTags and of
\* regenerateMessageImages that added the id has removed it.
C24_GuardReleased ==
    (\A r \in RunIds : runs[r].pc \in {"idle", "end"})
        => MessageId \notin processingMessages

\* the place of a job state in Pending, Generating, Saving, Done or Error
Rank(st) ==
    CASE st = "Pending" -> 0
      [] st = "Generating" -> 1
      [] st = "Saving" -> 2
      [] st \in {"Done", "Error"} -> 3

\* C25: a job moves only forward through Pending, Generating, Saving, then
\* Done or Error: the store is called at most once for a job and only when
\* a provider call of the job has returned an image, a job ends in Done
\* only from the store, and a job that is Done or Error changes no more.
C25_JobsMoveForward ==
    [][\A r \in RunIds : runs'[r].jobs # runs[r].jobs =>
          /\ Len(runs'[r].jobs) >= Len(runs[r].jobs)
          /\ \A j \in 1..MaxJobs :
               SameJob(r, j) =>
                 LET old == runs[r].jobs[j]
                     new == runs'[r].jobs[j]
                 IN  /\ Rank(new.st) >= Rank(old.st)
                     /\ Settled(old) => new = old
                     /\ (new.st = "Saving" /\ old.st # "Saving")
                          => old.st = "Generating" /\ old.await = "provider"
                     /\ (new.st = "Done" /\ old.st # "Done")
                          => old.st = "Saving"]_vars

C25_Witness ==
    \E r \in RunIds : \E j \in 1..MaxJobs :
        /\ j \in JobIds(r)
        /\ runs[r].jobs[j].st = "Error"
        /\ runs[r].jobs[j].calls > 0
        /\ \E k \in JobIds(r) : runs[r].jobs[k].st = "Done"

\* C26: every regenerateMessageImages request sends a provider request for
\* each <img> instruction the forceAll parse returned, also for an
\* instruction whose last outcome was Error and also when the request
\* follows an earlier regenerate of the message.
C26_RegenerateDispatchesAll ==
    \A r \in RunIds :
        ( /\ runs[r].kind = "regen"
          /\ runs[r].pc \in {"save", "end"}
          /\ ValidateSettings(settings) = <<>> )
        => \A j \in JobIds(r) :
               runs[r].jobs[j].tag.isNewFormat => runs[r].jobs[j].calls >= 1

\* C28: during a run the loading placeholder of every job that is started
\* and not settled is part of the view of the message, whatever the other
\* jobs of the run do to the view.
C28_PlaceholderStaysAttached ==
    \A r \in RunIds : \A j \in 1..MaxJobs :
        ( /\ j \in JobIds(r)
          /\ runs[r].pc = "jobs"
          /\ runs[r].jobs[j].st \in {"Generating", "Saving"} )
        => \E i \in 1..Len(view) :
               view[i].k = "loading" /\ view[i].own = <<r, j>>

\* C29: in every run, automatic or regenerate, a job that fails replaces
\* its loading placeholder with the error indicator: when the run has
\* completed, no loading placeholder of the run is in the view.
C29_NoPlaceholderAfterRun ==
    \A r \in RunIds :
        runs[r].pc = "end" =>
            \A i \in 1..Len(view) :
                view[i].k = "loading" => view[i].own[1] # r

\* C30: when a run, automatic or regenerate, completes, the view of the
\* message is rebuilt from message.mes: the view is the formatting of the
\* saved log.
C30_ViewRebuilt ==
    [][\A r \in RunIds :
          (runs[r].pc = "save" /\ runs'[r].pc = "end")
          => view' = Render(mes')]_vars

(***************************************************************************)
(* Properties of the search for the <img> element of a tag                 *)
(***************************************************************************)
\* the place in the declared order of the first strategy the element
\* matches for the prompt, 6 when it matches none
MatchRank(img, prompt) ==
    IF img.instr # <<>> /\ Strategy1(img, prompt) THEN 1
    ELSE IF img.instr # <<>> /\ Strategy2(img, prompt) THEN 2
    ELSE IF img.instr # <<>> /\ Strategy3(img, prompt) THEN 3
    ELSE IF SrcMarkerMatch(img) THEN 4
    ELSE IF BroadMatch(img) THEN 5
    ELSE 6

\* C27: for a tag of the <img> grammar the element found is one that
\* matches the earliest strategy, in the declared order, that any element
\* of the view matches: no element found by a later strategy is chosen
\* while another element matches an earlier one; none is found only when
\* no element matches any strategy.
C27_EarliestStrategyWins ==
    rs.pc = "found" =>
        LET best == Min({MatchRank(rs.imgs[i], rs.prompt) : i \in 1..Len(rs.imgs)})
        IN  IF best = 6 THEN rs.target = 0
            ELSE /\ rs.target # 0
                 /\ MatchRank(rs.imgs[rs.target], rs.prompt) = best

(***************************************************************************)
(* Properties of the requests of the provider adapters                     *)
(***************************************************************************)
Requested(apiType) == rq.pc = "request" /\ rq.apiType = apiType

\* C32: in the bitmap protocol the size of the request is derived from the
\* aspect ratio of the instruction whenever it gives one, for each of the
\* ten values of the enum: the size is then the same whatever size is
\* configured; the configured size is the size of the request only when
\* the instruction gives no aspect ratio.
C32_SizeFromAspectRatio ==
    Requested("openai") =>
        /\ ArrayIncludes(VALID_ASPECT_RATIOS, rq.options.aspectRatio) =>
             \A size \in ConfiguredSizes :
                 OpenAISize(rq.options, [rq.settings EXCEPT !.size = size])
                   = rq.body.size
        /\ rq.options.aspectRatio = Null => rq.body.size = rq.settings.size

\* C33: every request of the multimodal protocol carries an aspectRatio of
\* the ten-value enum and an imageSize of 1K, 2K, 4K, whatever the tag and
\* the settings hold; a value of the tag that is in the enum is the one
\* sent, a value out of the enum is replaced and the request is built all
\* the same.
C33_GeminiRequestInEnum ==
    Requested("gemini") =>
        /\ ArrayIncludes(VALID_ASPECT_RATIOS, rq.body.aspectRatio)
        /\ ArrayIncludes(VALID_IMAGE_SIZES, rq.body.imageSize)
        /\ ArrayIncludes(VALID_ASPECT_RATIOS, rq.options.aspectRatio)
             => rq.body.aspectRatio = rq.options.aspectRatio
        /\ ArrayIncludes(VALID_IMAGE_SIZES, rq.options.imageSize)
             => rq.body.imageSize = rq.options.imageSize

C33_Witness ==
    /\ Requested("gemini")
    /\ rq.options = [aspectRatio |-> "7:3", imageSize |-> "8K"]
    /\ rq.settings.aspectRatio = "auto"
    /\ rq.settings.imageSize = "HD"
    /\ rq.body.aspectRatio = "1:1"
    /\ rq.body.imageSize = "1K"

(***************************************************************************)
(* Properties of the settings panel                                        *)
(***************************************************************************)
\* C37: after the max-retries input is set to an integer n of 0..5,
\* settings.maxRetries is n; with 0 a call of generateImageWithRetry makes
\* one provider call and never waits for a retry, as with the default
\* configuration.
C37_MaxRetriesStored ==
    ui.events > 0 =>
        \A n \in 0..5 :
            ui.value = <<Digits[n + 1]>> =>
                /\ settings.maxRetries = n
                /\ n = DefaultMaxRetries => rt.calls <= 1 /\ rt.pc # "wait"

(***************************************************************************)
(* Properties of the image a job receives and of its way to the store      *)
(***************************************************************************)
\* the answers of the bitmap protocol that carry an image
ImageResponses ==
    { HttpResponse("200", <<"b64_json">>), HttpResponse("200", <<"url">>) }

\* C31: a successful answer of the bitmap protocol leads the job to Done,
\* with the image inline (b64_json) as well as with a url: the answer takes
\* the job to the store and not to Error, and when the store returns the
\* job is Done, its stored path is in message.mes and no error sentinel is
\* written for it.
C31_ImageAnswerReachesDone ==
    [][\A j \in 1..MaxJobs :
          /\ \A resp \in ImageResponses :
                 ProviderAnswers(1, j, resp) =>
                     /\ runs'[1].jobs[j].st = "Saving"
                     /\ mes' = mes
          /\ StoreReturns(1, j) =>
                 /\ runs'[1].jobs[j].st = "Done"
                 /\ PathWritten(mes', runs'[1].jobs[j].path)
                 /\ \A i \in 1..Len(mes') :
                        /\ mes'[i].g # "error"
                        /\ SrcValue(mes'[i]) # ERROR_IMAGE_PATH]_vars

\* C36: when saveImageToFile throws, the job ends in Error and the error
\* sentinel of its grammar is at its instruction in message.mes; neither
\* the store nor the provider is called again for it, and no other job of
\* the run ends in Error with it.
C36_StoreRejection ==
    [][\A r \in RunIds : \A j \in 1..MaxJobs :
          StoreFails(r, j) =>
              LET job == runs'[r].jobs[j]
              IN  /\ job.st = "Error"
                  /\ job.await = "none"
                  /\ job.calls = runs[r].jobs[j].calls
                  /\ mes'[job.tag.index] = ErrorSentinel(job.tag, job.error)
                  /\ \A k \in JobIds(r) :
                         (k # j /\ runs'[r].jobs[k].st = "Error")
                         => runs[r].jobs[k].st = "Error"]_vars

\* the tags of the jobs of run r have pairwise distinct text
DistinctTexts(r) ==
    \A j, k \in JobIds(r) :
        j # k => runs[r].jobs[j].tag.fullMatch # runs[r].jobs[k].tag.fullMatch

\* C38: within one run whose tags have pairwise distinct text no rewrite of
\* message.mes is lost: when the run settles, message.mes holds the stored
\* path of every job of the run that is Done and the error sentinel of
\* every job of the run that is in Error, whatever the order in which the
\* jobs have settled.
C38_NoRewriteLost ==
    [][\A r \in RunIds :
          ( /\ runs[r].pc = "jobs"
            /\ runs'[r].pc = "save"
            /\ DistinctTexts(r) )
          => \A j \in 1..Len(runs'[r].jobs) :
                 LET job == runs'[r].jobs[j]
                 IN  /\ job.st = "Done" => PathWritten(mes', job.path)
                     /\ job.st = "Error" =>
                          \E i \in 1..Len(mes') :
                              mes'[i] = ErrorSentinel(job.tag, job.error)]_vars

(***************************************************************************)
(* Properties of the fields of the instructions parseImageTags returns     *)
(***************************************************************************)
\* piece n is a pending tag whose payload is valid JSON with a prompt, at a
\* place the scans reach
ValidPending(n) ==
    /\ PieceAt(n).form \in {"ok", "apostrophe"}
    /\ \/ PieceAt(n).g = "legacy"
       \/ PieceAt(n).src = <<>>
       \/ HasMarkerText(PieceAt(n).src)
    /\ ScanReaches(n)

\* C34: every instruction parseImageTags returns has a prompt that is not
\* empty: a tag whose JSON has no prompt, or an empty one, is not returned.
C34_PromptNotEmpty ==
    Parsed => \A k \in 1..Len(px.tags) : px.tags[k].prompt # <<>>

\* C35: every pending tag whose payload is valid JSON with a prompt is
\* returned, with the style and the prompt of that JSON: the normalization
\* of the quotes drops no such tag and changes no value, whatever
\* characters the values hold.
C35_FieldsAsWritten ==
    Parsed =>
        \A n \in PieceIds :
            ValidPending(n) =>
                \E k \in 1..Len(px.tags) :
                    /\ px.tags[k].index = px.starts[n]
                    /\ px.tags[k].prompt = PieceAt(n).prompt
                    /\ px.tags[k].style = PieceAt(n).style

(***************************************************************************)
(* Properties of the legacy scan of parseImageTags                         *)
(***************************************************************************)
\* C39: the legacy scan of parseImageTags ends on every text: from one turn
\* of its loop to the next the search position grows (in lexemes, and so
\* in characters) and stays within the text, also after an unclosed brace,
\* a missing closing bracket or JSON that cannot be decoded.
C39_SearchPositionGrows ==
    [][(px.pc = "scan" /\ px'.pc = "scan") =>
          /\ px'.searchStart > px.searchStart
          /\ Offset(px.text, px'.searchStart) > Offset(px.text, px.searchStart)
          /\ px'.searchStart <= Len(px.text) + 1
          /\ px'.iterations <= Len(px.text)]_vars

C39_Witness ==
    /\ px.pc = "scanned"
    /\ px.iterations = 2
    /\ px.tags = <<>>
    /\ {PieceAt(n).form : n \in PieceIds} = {"bad json", "no bracket"}

====
